---- MODULE Spec2Model ----
(***************************************************************************)
(* Model of the flattening / row-building / column-unification code of     *)
(* metroverse_scraper (api_extractor.py and its near-duplicates).          *)
(*                                                                         *)
(* JSON values are tagged records, Python dicts are sequences of           *)
(* [k, v] entries with distinct keys kept in insertion order, Python       *)
(* strings are TLA+ strings.                                               *)
(***************************************************************************)
EXTENDS Integers, Sequences, FiniteSets, TLC

VARIABLES
    data,        \* the payload handed to the operation (json value)
    city_id,     \* the subject identifier supplied by the caller
    pc,          \* "start", or the name of the operation that has run
    flat,        \* the dict returned by a flattener
    rows,        \* the list of row dicts built by a row builder
    fieldnames,  \* the ordered column list of the table
    csvfile,     \* the lines written (header first), <<>> when no file
    extractor,   \* the extractor whose cascade runs, "none" outside a cascade
    phase,       \* the position of the cascade in its code
    idx,         \* the index (from 1) of the strategy probed, in its list
    response,    \* the response of the request in flight, or NoResponse
    working_data,\* the discovery result collected so far (dict)
    city_info,   \* what the search probe returned (None until it returns)
    requests,    \* history: the URLs requested, in order
    returned,    \* history: the non-null payloads probes returned, in order
    pause_due,   \* a request was issued and no pause has followed it yet
    answered,    \* how many probes got another answer than a plain 404
    files,       \* the tables written, by name (dict)
    warnings,    \* the messages logged at warning level
    result,      \* what the run returned, or NoResult before it returns
    page_check,  \* the existence/page check of the run: "none", "passed", "failed"
    errors,      \* the messages logged at error level
    table_data,  \* the rows of the HTML tables of the page, by table (dict)
    cities,      \* the list handed to process_multiple_cities
    pos,         \* how many entries of `cities` the loop has gone through
    all_tables,  \* table name -> the frames collected for it, in order (dict)
    attempted,   \* history: the ids handed to the per-city processing, in order
    outcomes,    \* history: per entry gone through, whether it raised, its tables
    combined     \* the combined files written, by name (dict)

\* The state of one table operation, of a cascade run, and of a run over
\* several cities.
table == <<data, pc, flat, rows, fieldnames, csvfile>>
cascade == <<extractor, phase, idx, response, working_data, city_info, requests,
             returned, pause_due, answered, files, warnings, result, page_check,
             errors, table_data>>
batch == <<cities, pos, all_tables, attempted, outcomes, combined>>

vars == <<city_id, table, cascade, batch>>

(***************************************************************************)
(* Bounds of the input universe.                                           *)
(***************************************************************************)
MaxLen == 2      \* longest generated array

(***************************************************************************)
(* JSON values as Python objects.                                          *)
(***************************************************************************)
Null == [t |-> "null"]
Num(n) == [t |-> "num", n |-> n]
Flt(r) == [t |-> "float", r |-> r]      \* r: the float's repr, e.g. "1.2"
Str(s) == [t |-> "str", s |-> s]
Bool(b) == [t |-> "bool", b |-> b]
Arr(a) == [t |-> "arr", a |-> a]          \* a: sequence of values
Obj(f) == [t |-> "obj", f |-> f]          \* f: dict, sequence of entries
Entry(k, v) == [k |-> k, v |-> v]

IsDict(v) == v.t = "obj"
IsList(v) == v.t = "arr"
IsScalar(v) == v.t \in {"null", "num", "float", "str", "bool"}

\* Python truthiness, as used by `if data:` and `if rows:`.
Truthy(v) ==
    CASE v.t = "null" -> FALSE
      [] v.t = "num" -> v.n # 0
      [] v.t = "float" -> v.r \notin {"0.0", "-0.0"}
      [] v.t = "str" -> v.s # ""
      [] v.t = "bool" -> v.b
      [] v.t = "arr" -> v.a # <<>>
      [] v.t = "obj" -> v.f # <<>>

(***************************************************************************)
(* Python dict operations on sequences of entries.                         *)
(***************************************************************************)
Range(s) == {s[i] : i \in 1..Len(s)}
Keys(d) == {d[i].k : i \in 1..Len(d)}
KeyList(d) == [i \in 1..Len(d) |-> d[i].k]
HasKey(d, k) == k \in Keys(d)
Get(d, k) == LET i == CHOOSE j \in 1..Len(d) : d[j].k = k IN d[i].v

\* Mutant: d.setdefault(k, v), a key the dict already has keeps its value.
DictSetDefault(d, k, v) == IF HasKey(d, k) THEN d ELSE Append(d, Entry(k, v))

\* d[k] = v : overwrite in place when k is present, append otherwise.
DictSet(d, k, v) ==
    IF HasKey(d, k)
    THEN [i \in 1..Len(d) |-> IF d[i].k = k THEN Entry(k, v) ELSE d[i]]
    ELSE Append(d, Entry(k, v))

\* dict(items) and dict.update(items): later items overwrite earlier ones.
RECURSIVE DictUpdate(_, _)
DictUpdate(d, items) ==
    IF items = <<>> THEN d
    ELSE DictUpdate(DictSet(d, Head(items).k, Head(items).v), Tail(items))

\* Mutant: the first item of a key is kept.
RECURSIVE DictKeepFirst(_, _)
DictKeepFirst(d, items) ==
    IF items = <<>> THEN d
    ELSE DictKeepFirst(IF HasKey(d, Head(items).k) THEN d ELSE Append(d, Head(items)),
                       Tail(items))

DictFromItemsFirstWins(items) == DictKeepFirst(<<>>, items)

DictFromItems(items) == DictUpdate(<<>>, items)

(***************************************************************************)
(* str() and repr() of Python values.                                      *)
(***************************************************************************)
DigitChars == "0123456789"
DigitStr(d) == SubSeq(DigitChars, d + 1, d + 1)

RECURSIVE NatStr(_)
NatStr(n) == IF n < 10 THEN DigitStr(n) ELSE NatStr(n \div 10) \o DigitStr(n % 10)

IntStr(n) == IF n < 0 THEN "-" \o NatStr(-n) ELSE NatStr(n)

\* sep.join(parts)
RECURSIVE Join(_, _)
Join(sep, parts) ==
    IF parts = <<>> THEN ""
    ELSE IF Len(parts) = 1 THEN parts[1]
    ELSE parts[1] \o sep \o Join(sep, Tail(parts))

RECURSIVE PyRepr(_)
PyRepr(v) ==
    CASE v.t = "null" -> "None"
      [] v.t = "num" -> IntStr(v.n)
      [] v.t = "float" -> v.r
      [] v.t = "str" -> "'" \o v.s \o "'"
      [] v.t = "bool" -> IF v.b THEN "True" ELSE "False"
      [] v.t = "arr" ->
            "[" \o Join(", ", [i \in 1..Len(v.a) |-> PyRepr(v.a[i])]) \o "]"
      [] v.t = "obj" ->
            "{" \o Join(", ", [i \in 1..Len(v.f) |->
                    "'" \o v.f[i].k \o "': " \o PyRepr(v.f[i].v)]) \o "}"

\* str(v): a string is itself, everything else prints as its repr.
PyStr(v) == IF v.t = "str" THEN v.s ELSE PyRepr(v)

(***************************************************************************)
(* Python string ordering (code point order) and sorted().                 *)
(***************************************************************************)
AsciiOrder == "0123456789ABCDEFGHIJKLMNOPQRSTUVWXYZ_abcdefghijklmnopqrstuvwxyz"

\* The position of the character c in s.
CharIndex(c, s) == CHOOSE i \in 1..Len(s) : SubSeq(s, i, i) = c

Ord(c) == CharIndex(c, AsciiOrder)

RECURSIVE StrLess(_, _)
StrLess(a, b) ==
    IF b = "" THEN FALSE
    ELSE IF a = "" THEN TRUE
    ELSE IF Head(a) = Head(b) THEN StrLess(Tail(a), Tail(b))
    ELSE Ord(Head(a)) < Ord(Head(b))

RECURSIVE sorted(_)
sorted(S) ==
    IF S = {} THEN <<>>
    ELSE LET m == CHOOSE x \in S : \A y \in S \ {x} : StrLess(x, y)
         IN <<m>> \o sorted(S \ {m})

\* [x for x in seq if x != k]
RECURSIVE Without(_, _)
Without(seq, k) ==
    IF seq = <<>> THEN <<>>
    ELSE IF Head(seq) = k THEN Without(Tail(seq), k)
    ELSE <<Head(seq)>> \o Without(Tail(seq), k)

(***************************************************************************)
(* APIMetroverseExtractor.flatten_dict (the same code is repeated in       *)
(* browser_extractor.py and basic_extractor.py).                           *)
(***************************************************************************)
\* Mutant: the parent key is not carried into the key of a nested field.
new_key_without_parent(parent_key, sep, k) == k

\* Mutant: the separator is put before a top-level key too.
new_key_always_joined(parent_key, sep, k) == parent_key \o sep \o k

new_key(parent_key, sep, k) ==
    IF parent_key # "" THEN parent_key \o sep \o k ELSE k

RECURSIVE flatten_dict(_, _, _)

\* Mutant: a list of dicts has every element flattened, not only the first.
RECURSIVE FlattenEach(_, _, _)
FlattenEach(a, nk, sep) ==
    IF a = <<>> THEN <<>>
    ELSE flatten_dict(Head(a).f, nk \o "_first", sep) \o FlattenEach(Tail(a), nk, sep)

ListItemsEveryElement(nk, v, sep) ==
    IF Len(v.a) > 0 /\ IsDict(v.a[1])
    THEN <<Entry(nk \o "_count", Num(Len(v.a)))>>
            \o FlattenEach(SelectSeq(v.a, IsDict), nk, sep)
    ELSE <<Entry(nk, Str(Join(", ", [i \in 1..Len(v.a) |-> PyStr(v.a[i])])))>>

\* The list branch of the loop body: the items appended for a list value v.
ListItems(nk, v, sep) ==
    IF Len(v.a) > 0 /\ IsDict(v.a[1])
    THEN <<Entry(nk \o "_count", Num(Len(v.a)))>>
            \o flatten_dict(v.a[1].f, nk \o "_first", sep)
    ELSE <<Entry(nk, Str(Join(", ", [i \in 1..Len(v.a) |-> PyStr(v.a[i])])))>>

\* Mutant: a list that does not start with a dict is stored as it is.
FieldItemsKeepList(k, v, parent_key, sep) ==
    LET nk == new_key(parent_key, sep, k)
    IN  IF IsDict(v) THEN flatten_dict(v.f, nk, sep)
        ELSE IF IsList(v) /\ Len(v.a) > 0 /\ IsDict(v.a[1]) THEN ListItems(nk, v, sep)
        ELSE <<Entry(nk, v)>>

\* The loop body: the items appended for the field k: v.
FieldItems(k, v, parent_key, sep) ==
    LET nk == new_key(parent_key, sep, k)
    IN  IF IsDict(v) THEN flatten_dict(v.f, nk, sep)
        ELSE IF IsList(v) THEN ListItems(nk, v, sep)
        ELSE <<Entry(nk, v)>>

\* The list `items` when the loop over d.items() has ended.
RECURSIVE FlattenItems(_, _, _)
FlattenItems(d, parent_key, sep) ==
    IF d = <<>> THEN <<>>
    ELSE FieldItems(Head(d).k, Head(d).v, parent_key, sep)
            \o FlattenItems(Tail(d), parent_key, sep)

flatten_dict(d, parent_key, sep) == DictFromItems(FlattenItems(d, parent_key, sep))

(***************************************************************************)
(* SimpleMetroverseExtractor.flatten_dict: a list that does not start with *)
(* a dict is stored as it is.                                              *)
(***************************************************************************)
RECURSIVE simple_flatten_dict(_, _, _)

SimpleFieldItems(k, v, parent_key, sep) ==
    LET nk == new_key(parent_key, sep, k)
    IN  IF IsDict(v) THEN simple_flatten_dict(v.f, nk, sep)
        ELSE IF IsList(v) /\ Len(v.a) > 0 /\ IsDict(v.a[1])
        THEN <<Entry(nk \o "_count", Num(Len(v.a)))>>
                \o simple_flatten_dict(v.a[1].f, nk \o "_first", sep)
        ELSE <<Entry(nk, v)>>

RECURSIVE SimpleFlattenItems(_, _, _)
SimpleFlattenItems(d, parent_key, sep) ==
    IF d = <<>> THEN <<>>
    ELSE SimpleFieldItems(Head(d).k, Head(d).v, parent_key, sep)
            \o SimpleFlattenItems(Tail(d), parent_key, sep)

simple_flatten_dict(d, parent_key, sep) ==
    DictFromItems(SimpleFlattenItems(d, parent_key, sep))

(***************************************************************************)
(* EnhancedMetroverseExtractor.flatten_nested_data.                        *)
(***************************************************************************)
RECURSIVE flatten_nested_data(_, _)

\* One pass of either loop: the child `value` under the key `nk`.
NestedStep(flattened, nk, value) ==
    IF IsDict(value) \/ IsList(value)
    THEN DictUpdate(flattened, flatten_nested_data(value, nk))
    ELSE DictSet(flattened, nk, value)

RECURSIVE NestedDictLoop(_, _, _)
NestedDictLoop(flattened, d, prefix) ==
    IF d = <<>> THEN flattened
    ELSE NestedDictLoop(
            NestedStep(flattened,
                       IF prefix # "" THEN prefix \o "_" \o Head(d).k ELSE Head(d).k,
                       Head(d).v),
            Tail(d), prefix)

RECURSIVE NestedListLoop(_, _, _, _)
NestedListLoop(flattened, a, i, prefix) ==
    IF i > Len(a) THEN flattened
    ELSE NestedListLoop(
            NestedStep(flattened,
                       IF prefix # "" THEN prefix \o "_" \o IntStr(i - 1)
                                      ELSE IntStr(i - 1),
                       a[i]),
            a, i + 1, prefix)

flatten_nested_data(v, prefix) ==
    IF IsDict(v) THEN NestedDictLoop(<<>>, v.f, prefix)
    ELSE IF IsList(v) THEN NestedListLoop(<<>>, v.a, 1, prefix)
    ELSE <<Entry(prefix, v)>>

(***************************************************************************)
(* Row building and header of APIMetroverseExtractor.convert_to_csv.       *)
(***************************************************************************)
\* Mutant: a `source` column is written beside the city_id column.
WithCityIdAndSource(row, cid) ==
    DictSet(DictSet(row, "city_id", Str(cid)), "source", Str("api"))

\* flat_item['city_id'] = city_id
WithCityId(row, cid) == DictSet(row, "city_id", Str(cid))

\* {'value': item, 'city_id': city_id}
ValueRow(item, cid) == <<Entry("value", item), Entry("city_id", Str(cid))>>

\* One pass of `for item in data`.
ConvertItemRow(item, cid) ==
    IF IsDict(item)
    THEN WithCityId(flatten_dict(item.f, "", "_"), cid)
    ELSE ValueRow(item, cid)

\* Mutant: a list of scalars gives one row with the elements joined.
ConvertRowsJoinScalars(d, cid) ==
    IF IsList(d) /\ d.a # <<>> /\ \A i \in 1..Len(d.a) : IsScalar(d.a[i])
    THEN <<ValueRow(Str(Join(", ", [i \in 1..Len(d.a) |-> PyStr(d.a[i])])), cid)>>
    ELSE IF IsList(d) THEN [i \in 1..Len(d.a) |-> ConvertItemRow(d.a[i], cid)]
    ELSE IF IsDict(d) THEN <<WithCityId(flatten_dict(d.f, "", "_"), cid)>>
    ELSE <<ValueRow(d, cid)>>

\* The list `rows` built by lines 176-193.
ConvertRows(d, cid) ==
    IF IsList(d) THEN [i \in 1..Len(d.a) |-> ConvertItemRow(d.a[i], cid)]
    ELSE IF IsDict(d) THEN <<WithCityId(flatten_dict(d.f, "", "_"), cid)>>
    ELSE <<ValueRow(d, cid)>>

\* all_keys: the union of the keys of all rows.
AllKeys(rs) == UNION {Keys(rs[i]) : i \in 1..Len(rs)}

\* Mutant: the header is sorted(all_keys), city_id is not moved to the front.
FieldnamesPlainSorted(rs) == sorted(AllKeys(rs))

\* Mutant: the keys of the first row come first, in the order of that row.
FieldnamesFirstRowFirst(rs) ==
    IF rs = <<>> THEN <<"city_id">>
    ELSE <<"city_id">> \o Without(KeyList(rs[1]), "city_id")
            \o sorted(AllKeys(rs) \ (Keys(rs[1]) \cup {"city_id"}))

\* fieldnames = ['city_id'] + [key for key in sorted(all_keys) if key != 'city_id']
Fieldnames(rs) == <<"city_id">> \o Without(sorted(AllKeys(rs)), "city_id")

\* What csv.writer puts in a cell: None is empty, a string is itself,
\* anything else goes through str().
CsvCell(v) == IF v.t = "null" THEN "" ELSE PyStr(v)

\* Mutant: a missing key is written as str(None).
WriteCsvRestvalNone(fn, rs) ==
    <<fn>> \o [i \in 1..Len(rs) |->
                [j \in 1..Len(fn) |->
                    IF HasKey(rs[i], fn[j]) THEN CsvCell(Get(rs[i], fn[j])) ELSE "None"]]

\* csv.DictWriter.writeheader() then writerows(rows), restval = ''.
WriteCsv(fn, rs) ==
    <<fn>> \o [i \in 1..Len(rs) |->
                [j \in 1..Len(fn) |->
                    IF HasKey(rs[i], fn[j]) THEN CsvCell(Get(rs[i], fn[j])) ELSE ""]]

(***************************************************************************)
(* Row building of BrowserMetroverseExtractor.save_data_as_csv: only dict  *)
(* items of a list and a dict payload give rows.                           *)
(***************************************************************************)
RECURSIVE BrowserListRows(_, _)
BrowserListRows(a, cid) ==
    IF a = <<>> THEN <<>>
    ELSE (IF IsDict(Head(a))
          THEN <<WithCityId(flatten_dict(Head(a).f, "", "_"), cid)>>
          ELSE <<>>) \o BrowserListRows(Tail(a), cid)

BrowserRows(d, cid) ==
    IF IsList(d) THEN BrowserListRows(d.a, cid)
    ELSE IF IsDict(d) THEN <<WithCityId(flatten_dict(d.f, "", "_"), cid)>>
    ELSE <<>>

(***************************************************************************)
(* SimpleMetroverseExtractor.json_to_dataframe.  A DataFrame is its column *)
(* list and its records; pandas orders the columns of a list of dicts by   *)
(* first appearance, and df['city_id'] = x overwrites the column in place  *)
(* or appends it.                                                          *)
(***************************************************************************)
RECURSIVE FirstSeen(_, _)
FirstSeen(seen, ks) ==
    IF ks = <<>> THEN seen
    ELSE IF Head(ks) \in Range(seen) THEN FirstSeen(seen, Tail(ks))
    ELSE FirstSeen(Append(seen, Head(ks)), Tail(ks))

RECURSIVE FrameColumns(_, _)
FrameColumns(seen, rs) ==
    IF rs = <<>> THEN seen
    ELSE FrameColumns(FirstSeen(seen, KeyList(Head(rs))), Tail(rs))

SetColumn(cols, c) == IF c \in Range(cols) THEN cols ELSE Append(cols, c)

\* The records of the frame before the city_id column is assigned.
FrameRecords(d) ==
    IF IsList(d)
    THEN IF \A i \in 1..Len(d.a) : IsDict(d.a[i])
         THEN [i \in 1..Len(d.a) |-> d.a[i].f]
         ELSE [i \in 1..Len(d.a) |-> <<Entry("value", d.a[i])>>]
    ELSE IF IsDict(d) THEN <<simple_flatten_dict(d.f, "", "_")>>
    ELSE <<<<Entry("value", d)>>>>

json_to_dataframe_columns(d) ==
    SetColumn(IF IsList(d) /\ ~(\A i \in 1..Len(d.a) : IsDict(d.a[i]))
              THEN <<"value">>
              ELSE IF IsDict(d) \/ IsList(d) THEN FrameColumns(<<>>, FrameRecords(d))
              ELSE <<"value">>,
              "city_id")

json_to_dataframe_records(d, cid) ==
    [i \in 1..Len(FrameRecords(d)) |-> DictSet(FrameRecords(d)[i], "city_id", Str(cid))]

(***************************************************************************)
(* BrowserMetroverseExtractor.convert_to_csv: the network requests table.  *)
(* extract_network_requests gives every request the same four keys; the    *)
(* header of the table is the key list of the first request.               *)
(***************************************************************************)
NetworkRequest(url, status) ==
    Obj(<<Entry("url", Str(url)), Entry("status", Num(status)),
          Entry("mimeType", Str("application/json")), Entry("timestamp", Num(1))>>)

\* The rows handed to writer.writerows: result['network_requests'].
NetworkRows(res) ==
    LET reqs == Get(res.f, "network_requests").a
    IN  [i \in 1..Len(reqs) |-> reqs[i].f]

(***************************************************************************)
(* BasicMetroverseExtractor.flatten_json_to_rows and save_to_csv.          *)
(***************************************************************************)
FlattenJsonItemRow(item, i, prefix) ==
    IF IsDict(item)
    THEN flatten_dict(item.f, prefix, "_")
    ELSE <<Entry(prefix \o "value_" \o NatStr(i), item)>>

flatten_json_to_rows(json_obj, prefix) ==
    IF IsList(json_obj)
    THEN [i \in 1..Len(json_obj.a) |-> FlattenJsonItemRow(json_obj.a[i], i - 1, prefix)]
    ELSE IF IsDict(json_obj) THEN <<flatten_dict(json_obj.f, prefix, "_")>>
    ELSE <<<<Entry(prefix \o "value", json_obj)>>>>

\* for row in data: row['city_id'] = city_id
SaveToCsvRows(rs, cid) == [i \in 1..Len(rs) |-> WithCityId(rs[i], cid)]

(***************************************************************************)
(* data_linker.py: extract_industries and save_csv.  The file key of a     *)
(* subject starts with its identifier, so key.split('_')[0] is city_id.    *)
(***************************************************************************)
\* d.get(k): None when the key is missing.
GetOrNone(d, k) == IF HasKey(d, k) THEN Get(d, k) ELSE Null

IndustryRow(cid, ind) ==
    <<Entry("city_id", Str(cid)),
      Entry("industry_id", GetOrNone(ind, "id")),
      Entry("name", GetOrNone(ind, "name")),
      Entry("employment", GetOrNone(ind, "employment")),
      Entry("rca", GetOrNone(ind, "rca")),
      Entry("complexity", GetOrNone(ind, "complexity"))>>

RECURSIVE NamedIndustryRows(_, _)
NamedIndustryRows(a, cid) ==
    IF a = <<>> THEN <<>>
    ELSE (IF IsDict(Head(a)) /\ HasKey(Head(a).f, "name")
          THEN <<IndustryRow(cid, Head(a).f)>>
          ELSE <<>>) \o NamedIndustryRows(Tail(a), cid)

\* ind.get(...) needs every element of content['industries'] to be a dict.
IndustriesWellFormed(content) ==
    (IsDict(content) /\ HasKey(content.f, "industries")) =>
        LET inds == Get(content.f, "industries")
        IN  IsList(inds) /\ \A i \in 1..Len(inds.a) : IsDict(inds.a[i])

extract_industries(content, cid) ==
    IF IsDict(content) /\ HasKey(content.f, "industries")
    THEN LET inds == Get(content.f, "industries").a
         IN  [i \in 1..Len(inds) |-> IndustryRow(cid, inds[i].f)]
    ELSE IF IsList(content) THEN NamedIndustryRows(content.a, cid)
    ELSE <<>>

\* Mutant: the table is written even when there is no row.
SaveCsvLinesAlways(rs) == WriteCsv(sorted(AllKeys(rs)), rs)

\* The lines save_csv writes: none when `not data`.
SaveCsvLines(rs) == IF rs = <<>> THEN <<>> ELSE WriteCsv(sorted(AllKeys(rs)), rs)

(***************************************************************************)
(* The input universe: payloads a probe can return, and subjects.          *)
(***************************************************************************)
Subjects == {"3444", "7"}

\* The scenario payload of the design notes (Bucharest, subject 3444).
ExamplePayload ==
    Obj(<<Entry("city", Obj(<<Entry("name", Str("Bucharest")),
                              Entry("population", Num(1800000))>>)),
          Entry("industries",
                Arr(<<Obj(<<Entry("id", Num(1)), Entry("name", Str("Textiles")),
                            Entry("rca", Flt("1.2"))>>),
                      Obj(<<Entry("id", Num(2)), Entry("name", Str("IT")),
                            Entry("rca", Flt("0.8"))>>)>>))>>)

\* The scenario payload ["a", "b", "c"].
ExampleList == Arr(<<Str("a"), Str("b"), Str("c")>>)

TopScalars ==
    {Null, Num(0), Num(12), Str(""), Str("b"), Bool(FALSE), Bool(TRUE), Flt("1.2")}

Leaves == {Null, Num(1), Str("b")}

Elems ==
    {Num(1), Str("b"), Obj(<<>>), Obj(<<Entry("b", Num(1))>>),
     Obj(<<Entry("a", Str("b"))>>), Arr(<<Num(1)>>)}

Arrays == {Arr(a) : a \in UNION {[1..n -> Elems] : n \in 0..MaxLen}}

InnerObjects ==
    {Obj(<<>>), Obj(<<Entry("b", Num(1))>>), Obj(<<Entry("b", Obj(<<>>))>>),
     Obj(<<Entry("b", Arr(<<>>))>>)}

FieldValues == Leaves \cup InnerObjects \cup Arrays

\* A second field whose key meets a key derived from the field "a", or the
\* metadata column.
ExtraFields ==
    {Entry("a_b", Num(5)), Entry("a_count", Num(5)), Entry("city_id", Str("9"))}

Objects ==
    {Obj(<<>>)}
    \cup {Obj(<<Entry("a", v)>>) : v \in FieldValues}
    \cup {Obj(<<Entry("a", v), e>>) : v \in FieldValues, e \in ExtraFields}
    \cup {Obj(<<e, Entry("a", v)>>) : v \in FieldValues, e \in ExtraFields}

\* The results process_city of browser_extractor.py compiles, with the keys
\* convert_to_csv reads; no JavaScript variable was found.
NetworkLogs ==
    UNION {[1..n -> {NetworkRequest("/api/a", 200), NetworkRequest("/api/b", 404)}] :
             n \in 0..MaxLen}

BrowserResults ==
    {Obj(<<Entry("network_requests", Arr(reqs)), Entry("javascript_data", Obj(<<>>))>>) :
        reqs \in NetworkLogs}

\* A list of industries as data_linker.py reads it.
ExampleIndustries ==
    Arr(<<Obj(<<Entry("id", Num(1)), Entry("name", Str("Textiles"))>>),
          Obj(<<Entry("rca", Flt("0.8")), Entry("name", Str("IT"))>>),
          Num(1)>>)

Payloads ==
    TopScalars \cup Arrays \cup Objects \cup BrowserResults
        \cup {ExamplePayload, ExampleList, ExampleIndustries}

(***************************************************************************)
(* The state outside a run: of a cascade, and of a table operation.        *)
(***************************************************************************)
NoResponse == [error |-> FALSE, status_code |-> 0, is_json |-> FALSE, data |-> Null]
NoResult == [returned |-> FALSE]

NoCascade ==
    /\ extractor = "none"
    /\ phase = "none"
    /\ idx = 0
    /\ response = NoResponse
    /\ working_data = <<>>
    /\ city_info = Null
    /\ requests = <<>>
    /\ returned = <<>>
    /\ pause_due = FALSE
    /\ answered = 0
    /\ files = <<>>
    /\ warnings = {}
    /\ result = NoResult
    /\ page_check = "none"
    /\ errors = {}
    /\ table_data = <<>>

NoBatch ==
    /\ cities = <<>>
    /\ pos = 0
    /\ all_tables = <<>>
    /\ attempted = <<>>
    /\ outcomes = <<>>
    /\ combined = <<>>

NoTable ==
    /\ data = Null
    /\ pc = "none"
    /\ flat = <<>>
    /\ rows = <<>>
    /\ fieldnames = <<>>
    /\ csvfile = <<>>

(***************************************************************************)
(* The operations, each applied to the payload of the state.               *)
(***************************************************************************)
Init ==
    /\ data \in Payloads
    /\ city_id \in Subjects
    /\ pc = "start"
    /\ flat = <<>>
    /\ rows = <<>>
    /\ fieldnames = <<>>
    /\ csvfile = <<>>
    /\ NoCascade
    /\ NoBatch

\* flatten_dict(d) of api_extractor.py; its callers pass a dict.
FlattenDict ==
    /\ pc = "start"
    /\ IsDict(data)
    /\ flat' = flatten_dict(data.f, "", "_")
    /\ pc' = "flatten_dict"
    /\ UNCHANGED <<data, city_id, rows, fieldnames, csvfile>>
    /\ UNCHANGED <<cascade, batch>>

\* flatten_nested_data(data) of enhanced_extractor.py.
FlattenNestedData ==
    /\ pc = "start"
    /\ flat' = flatten_nested_data(data, "")
    /\ pc' = "flatten_nested_data"
    /\ UNCHANGED <<data, city_id, rows, fieldnames, csvfile>>
    /\ UNCHANGED <<cascade, batch>>

\* convert_to_csv(data, filename, city_id) of api_extractor.py.
ConvertToCsv ==
    /\ pc = "start"
    /\ rows' = ConvertRows(data, city_id)
    /\ IF rows' # <<>>
       THEN /\ fieldnames' = Fieldnames(rows')
            /\ csvfile' = WriteCsv(fieldnames', rows')
       ELSE UNCHANGED <<fieldnames, csvfile>>
    /\ pc' = "convert_to_csv"
    /\ UNCHANGED <<data, city_id, flat>>
    /\ UNCHANGED <<cascade, batch>>

\* save_data_as_csv(data, filename, city_id) of browser_extractor.py.
SaveDataAsCsv ==
    /\ pc = "start"
    /\ rows' = BrowserRows(data, city_id)
    /\ IF rows' # <<>>
       THEN /\ fieldnames' = Fieldnames(rows')
            /\ csvfile' = WriteCsv(fieldnames', rows')
       ELSE UNCHANGED <<fieldnames, csvfile>>
    /\ pc' = "save_data_as_csv"
    /\ UNCHANGED <<data, city_id, flat>>
    /\ UNCHANGED <<cascade, batch>>

\* json_to_dataframe(json_obj, city_id) of simple_extractor.py.
JsonToDataframe ==
    /\ pc = "start"
    /\ rows' = json_to_dataframe_records(data, city_id)
    /\ fieldnames' = json_to_dataframe_columns(data)
    /\ pc' = "json_to_dataframe"
    /\ UNCHANGED <<data, city_id, flat, csvfile>>
    /\ UNCHANGED <<cascade, batch>>

\* convert_to_csv(result, city_id) of browser_extractor.py.
ConvertNetworkRequests ==
    /\ pc = "start"
    /\ data \in BrowserResults
    /\ rows' = NetworkRows(data)
    /\ IF rows' # <<>>
       THEN /\ fieldnames' = KeyList(rows'[1])
            /\ csvfile' = WriteCsv(fieldnames', rows')
       ELSE UNCHANGED <<fieldnames, csvfile>>
    /\ pc' = "convert_network_requests"
    /\ UNCHANGED <<data, city_id, flat>>
    /\ UNCHANGED <<cascade, batch>>

\* save_to_csv(flatten_json_to_rows(data), filename, city_id) of
\* basic_extractor.py.
SaveToCsv ==
    /\ pc = "start"
    /\ rows' = SaveToCsvRows(flatten_json_to_rows(data, ""), city_id)
    /\ IF rows' # <<>>
       THEN /\ fieldnames' = Fieldnames(rows')
            /\ csvfile' = WriteCsv(fieldnames', rows')
       ELSE UNCHANGED <<fieldnames, csvfile>>
    /\ pc' = "save_to_csv"
    /\ UNCHANGED <<data, city_id, flat>>
    /\ UNCHANGED <<cascade, batch>>

\* save_csv(extract_industries(data), 'industries.csv') of data_linker.py.
SaveCsv ==
    /\ pc = "start"
    /\ IndustriesWellFormed(data)
    /\ rows' = extract_industries(data, city_id)
    /\ csvfile' = SaveCsvLines(rows')
    /\ fieldnames' = IF csvfile' = <<>> THEN <<>> ELSE csvfile'[1]
    /\ pc' = "save_csv"
    /\ UNCHANGED <<data, city_id, flat>>
    /\ UNCHANGED <<cascade, batch>>

Next ==
    \/ ConvertNetworkRequests
    \/ SaveToCsv
    \/ SaveCsv
    \/ FlattenDict
    \/ FlattenNestedData
    \/ ConvertToCsv
    \/ SaveDataAsCsv
    \/ JsonToDataframe

Spec == Init /\ [][Next]_vars

(***************************************************************************)
(* The discovery cascades.  A probe is a request and the handling of its   *)
(* response; the service answers a probe with a plain 404 unless it is one *)
(* of the at most MaxResponses probes of a run that get another answer.    *)
(***************************************************************************)
MaxResponses == 2

\* The subject of main().
MainCity == "3444"

base_url == "https://metroverse.hks.harvard.edu"

api_endpoints ==
    <<"/api/data/cities/{city_id}",
      "/api/data/cities/{city_id}/profile",
      "/api/data/cities/{city_id}/industries",
      "/api/data/cities/{city_id}/clusters",
      "/api/data/cities/{city_id}/complexity",
      "/api/data/cities/{city_id}/opportunities",
      "/api/data/cities/{city_id}/employment",
      "/api/data/cities/{city_id}/economic-composition",
      "/api/data/cities/{city_id}/good-at",
      "/api/data/cities/{city_id}/industry-position",
      "/api/data/cities/{city_id}/growth-opportunities",
      "/api/cities/{city_id}",
      "/api/cities/{city_id}/data",
      "/api/cities/{city_id}/profile",
      "/api/cities/{city_id}/overview">>

alternative_patterns(cid) ==
    <<"/api/city-data/" \o cid,
      "/api/v1/cities/" \o cid,
      "/api/v2/cities/" \o cid,
      "/data/cities/" \o cid \o ".json",
      "/data/city/" \o cid \o "/profile.json",
      "/static/data/cities/" \o cid \o ".json">>

search_endpoints ==
    <<"/api/search/cities", "/api/cities/search", "/api/autocomplete/cities">>

(***************************************************************************)
(* Python string operations used on endpoints.                             *)
(***************************************************************************)
StartsWith(s, p) == Len(s) >= Len(p) /\ SubSeq(s, 1, Len(p)) = p

\* s.find(sub) + 1: the position of the first occurrence of sub in s, 0 when
\* there is none.
Find(s, sub) ==
    LET hits == {i \in 1..(Len(s) - Len(sub) + 1) : StartsWith(SubSeq(s, i, Len(s)), sub)}
    IN  IF hits = {} THEN 0 ELSE CHOOSE i \in hits : \A j \in hits : i <= j

\* s.replace(old, new): the occurrences of old from left to right, without
\* overlap.
RECURSIVE Replace(_, _, _)
Replace(s, old, new) ==
    LET i == Find(s, old)
    IN  IF i = 0 THEN s
        ELSE SubSeq(s, 1, i - 1) \o new \o Replace(SubSeq(s, i + Len(old), Len(s)), old, new)

\* s.split('/')[-1]: what follows the last '/', s itself when it has none.
LastSegment(s) ==
    LET slashes == {i \in 1..Len(s) : SubSeq(s, i, i) = "/"}
        last == IF slashes = {} THEN 0 ELSE CHOOSE i \in slashes : \A j \in slashes : j <= i
    IN  SubSeq(s, last + 1, Len(s))

\* sub in s
Contains(s, sub) == Find(s, sub) # 0

\* endpoint.format(city_id=city_id)
Format(endpoint, cid) == Replace(endpoint, "{city_id}", cid)

\* s or default
OrDefault(s, default) == IF s = "" THEN default ELSE s

(***************************************************************************)
(* Responses of the service.                                               *)
(***************************************************************************)
Response(error, status_code, is_json, d) ==
    [error |-> error, status_code |-> status_code, is_json |-> is_json, data |-> d]

NotFound == Response(FALSE, 404, FALSE, Null)        \* HTTP 404
ConnectionError == Response(TRUE, 0, FALSE, Null)    \* RequestException
NotJson == Response(FALSE, 200, FALSE, Null)         \* 200, body is not JSON
Json(d) == Response(FALSE, 200, TRUE, d)             \* 200, response.json() = d

ProbePayloads == {ExamplePayload, ExampleList, Arr(<<>>)}

\* The list answers of the search endpoints, and a dict answer.
SearchCities ==
    Arr(<<Obj(<<Entry("id", Num(7)), Entry("name", Str("b"))>>),
          Obj(<<Entry("id", Num(3444)), Entry("name", Str("Bucharest"))>>)>>)
SearchOthers == Arr(<<Obj(<<Entry("id", Num(7)), Entry("name", Str("b"))>>)>>)
SearchDict == Obj(<<Entry("cities", Arr(<<Num(3444)>>))>>)

Responses(n) ==
    {NotFound} \cup
        IF n < MaxResponses
        THEN {ConnectionError, NotJson} \cup {Json(d) : d \in ProbePayloads}
        ELSE {}

SearchResponses(n) ==
    {NotFound} \cup
        IF n < MaxResponses
        THEN {ConnectionError, Json(SearchCities), Json(SearchOthers), Json(SearchDict)}
        ELSE {}

Answered(n, r) == IF r = NotFound THEN n ELSE n + 1

(***************************************************************************)
(* APIMetroverseExtractor: test_endpoint, discover_working_endpoints,      *)
(* try_alternative_endpoints, extract_city_info_from_search, process_city. *)
(***************************************************************************)
\* Mutant: a network error is passed on as a payload.
test_endpointErrorAsPayload(r) ==
    IF r.error THEN Str("error")
    ELSE IF r.status_code = 200 /\ r.is_json THEN r.data
    ELSE Null

\* What test_endpoint returns for a response: the JSON value, or None.
test_endpoint(r) ==
    IF r.error THEN Null
    ELSE IF r.status_code = 200 /\ r.is_json THEN r.data
    ELSE Null

\* Mutant: the alternative patterns are walked first.
StrategiesSwapped(ph, cid) ==
    IF ph = "standard" THEN alternative_patterns(cid) ELSE api_endpoints

\* The list a phase of process_city walks.
Strategies(ph, cid) ==
    IF ph = "standard" THEN api_endpoints ELSE alternative_patterns(cid)

\* endpoint.split('/')[-1] or 'root';
\* pattern.split('/')[-1].replace('.json', '') or 'alternative'
EndpointName(ph, endpoint) ==
    IF ph = "standard"
    THEN OrDefault(LastSegment(endpoint), "root")
    ELSE OrDefault(Replace(LastSegment(endpoint), ".json", ""), "alternative")

\* Mutant: the key is the name alone.
ResultKeyNameOnly(name, wd) == name

\* f"{endpoint_name}_{len(working_data)}"
ResultKey(name, wd) == name \o "_" \o NatStr(Len(wd))

\* {'endpoint': endpoint, 'data': data}
WorkingEntry(endpoint, d) == Obj(<<Entry("endpoint", Str(endpoint)), Entry("data", d)>>)

\* Mutant: every non-null payload is stored.
StoreIfNotNone(wd, ph, endpoint, d) ==
    IF d # Null
    THEN DictSet(wd, ResultKey(EndpointName(ph, endpoint), wd), WorkingEntry(endpoint, d))
    ELSE wd

\* if data: working_data[f"{endpoint_name}_{len(working_data)}"] = {...}
StoreIfData(wd, ph, endpoint, d) ==
    IF Truthy(d)
    THEN DictSet(wd, ResultKey(EndpointName(ph, endpoint), wd), WorkingEntry(endpoint, d))
    ELSE wd

\* Mutant: the alternative patterns are tried whatever the standard
\* endpoints gave.
AfterListAlways(ph, api_data) == IF ph = "standard" THEN "alternative" ELSE "search"

\* Mutant: after the alternative patterns the standard endpoints are probed
\* again.
AfterListAgain(ph, api_data) == IF ph = "standard" THEN "alternative" ELSE "standard"

\* What process_city does after a list: `if not api_data:` the alternative
\* patterns, then the search.
AfterList(ph, api_data) ==
    IF ph = "standard" /\ api_data = <<>> THEN "alternative" ELSE "search"

\* The first city of a search list whose str(city.get('id')) is city_id.
RECURSIVE FirstCity(_, _)
FirstCity(a, cid) ==
    IF a = <<>> THEN Null
    ELSE IF IsDict(Head(a)) /\ PyStr(GetOrNone(Head(a).f, "id")) = cid THEN Head(a)
    ELSE FirstCity(Tail(a), cid)

\* What one search endpoint contributes: a city, or None to go on.
SearchMatch(r, cid) ==
    IF r.error \/ r.status_code # 200 \/ ~r.is_json THEN Null
    ELSE IF IsList(r.data) THEN FirstCity(r.data.a, cid)
    ELSE IF IsDict(r.data) /\ Contains(PyStr(r.data), cid) THEN r.data
    ELSE Null

\* The lines convert_to_csv writes for a payload, <<>> when it writes none.
ConvertCsvLines(d, cid) ==
    LET rs == ConvertRows(d, cid)
    IN  IF rs # <<>> THEN WriteCsv(Fieldnames(rs), rs) ELSE <<>>

\* for key, endpoint_data in api_data.items(): if data: convert_to_csv(...)
RECURSIVE ApiFiles(_, _, _)
ApiFiles(fs, api_data, cid) ==
    IF api_data = <<>> THEN fs
    ELSE LET key == Head(api_data).k
             d == GetOrNone(Head(api_data).v.f, "data")
             lines == ConvertCsvLines(d, cid)
         IN  ApiFiles(IF Truthy(d) /\ lines # <<>>
                      THEN DictSet(fs, cid \o "_" \o key \o ".csv", lines)
                      ELSE fs,
                      Tail(api_data), cid)

\* Mutant: the search result replaces what the endpoints gave.
WithCityInfoAlone(api_data, info) ==
    IF Truthy(info) THEN <<Entry("city_info", WorkingEntry("search", info))>>
    ELSE api_data

\* if city_info: api_data['city_info'] = {'endpoint': 'search', 'data': city_info}
WithCityInfo(api_data, info) ==
    IF Truthy(info) THEN DictSet(api_data, "city_info", WorkingEntry("search", info))
    ELSE api_data

\* The responses to the GET of the city page.
PageResponses == {NotJson, NotFound, ConnectionError}

\* test_city_exists: response.status_code == 200, False when the GET raises.
test_city_exists(r) == ~r.error /\ r.status_code = 200

\* Mutant: main goes on to process_city whatever the check returned.
AfterCheckAlways(exists) == "exists"

\* `if extractor.test_city_exists(city_id): ... else: logger.error(...)` of
\* main: where the run stands after the check.
AfterCheck(exists) == IF exists THEN "exists" ELSE "unfetched"

\* main() of api_extractor.py: the check of the city page.
ApiMain ==
    /\ phase = "start"
    /\ extractor' = "api"
    /\ \E r \in PageResponses :
            /\ page_check' = IF test_city_exists(r) THEN "passed" ELSE "failed"
            /\ phase' = AfterCheck(test_city_exists(r))
            /\ errors' = IF test_city_exists(r) THEN errors
                         ELSE errors \cup {"City does not exist or is not accessible"}
    /\ UNCHANGED <<city_id, table, batch, table_data, idx, response, working_data,
                   city_info, requests, returned, pause_due, answered, files, warnings,
                   result>>

\* process_city(city_id) begins: discover_working_endpoints.
ApiProcessCity ==
    /\ extractor = "api"
    /\ phase = "exists"
    /\ phase' = "standard"
    /\ idx' = 1
    /\ UNCHANGED <<city_id, table, batch, table_data, page_check, errors, extractor,
                   response, working_data, city_info, requests,
                   returned, pause_due, answered, files, warnings, result>>

\* test_endpoint: self.session.get(url, timeout=15).
TestEndpointRequest ==
    /\ extractor = "api"
    /\ phase \in {"standard", "alternative"}
    /\ response = NoResponse
    /\ \E r \in Responses(answered) :
            /\ response' = r
            /\ answered' = Answered(answered, r)
    /\ requests' = Append(requests,
                          base_url \o Format(Strategies(phase, city_id)[idx], city_id))
    /\ pause_due' = TRUE
    /\ UNCHANGED <<city_id, table, batch, table_data, page_check, errors,
                   extractor, phase, idx, working_data, city_info,
                   returned, files, warnings, result>>

\* test_endpoint handles the response, sleeps in its `finally` and returns;
\* the loop stores the payload `if data:` and goes on.
TestEndpointReturn ==
    /\ extractor = "api"
    /\ phase \in {"standard", "alternative"}
    /\ response # NoResponse
    /\ LET d == test_endpoint(response)
           endpoint == Strategies(phase, city_id)[idx]
       IN  /\ working_data' = StoreIfData(working_data, phase, endpoint, d)
           /\ returned' = IF d # Null
                          THEN Append(returned, [endpoint |-> endpoint, data |-> d])
                          ELSE returned
    /\ pause_due' = FALSE
    /\ response' = NoResponse
    /\ IF idx < Len(Strategies(phase, city_id))
       THEN /\ idx' = idx + 1
            /\ phase' = phase
       ELSE /\ idx' = 1
            /\ phase' = AfterList(phase, working_data')
    /\ UNCHANGED <<city_id, table, batch, table_data, page_check, errors,
                   extractor, city_info, requests, answered, files,
                   warnings, result>>

\* extract_city_info_from_search: self.session.get(url, timeout=15).
SearchRequest ==
    /\ extractor = "api"
    /\ phase = "search"
    /\ response = NoResponse
    /\ \E r \in SearchResponses(answered) :
            /\ response' = r
            /\ answered' = Answered(answered, r)
    /\ requests' = Append(requests, base_url \o search_endpoints[idx])
    /\ pause_due' = TRUE
    /\ UNCHANGED <<city_id, table, batch, table_data, page_check, errors,
                   extractor, phase, idx, working_data, city_info,
                   returned, files, warnings, result>>

\* extract_city_info_from_search looks for the city in the response: it
\* returns the city, or goes on to the next search endpoint, or returns None
\* after the last one.
SearchReturn ==
    /\ extractor = "api"
    /\ phase = "search"
    /\ response # NoResponse
    /\ LET found == SearchMatch(response, city_id)
       IN  /\ city_info' = found
           /\ returned' = IF found # Null
                          THEN Append(returned, [endpoint |-> "search", data |-> found])
                          ELSE returned
           /\ IF found = Null /\ idx < Len(search_endpoints)
              THEN /\ idx' = idx + 1
                   /\ phase' = phase
              ELSE /\ idx' = 1
                   /\ phase' = "save"
    /\ response' = NoResponse
    /\ UNCHANGED <<city_id, table, batch, table_data, page_check, errors,
                   extractor, working_data, requests, pause_due,
                   answered, files, warnings, result>>

\* The rest of process_city: the search result is added, every payload is
\* converted, or the warning is logged; the result is returned.
ApiSaveAndReturn ==
    /\ extractor = "api"
    /\ phase = "save"
    /\ LET api_data == WithCityInfo(working_data, city_info)
       IN /\ working_data' = api_data
          /\ files' = ApiFiles(<<>>, api_data, city_id)
          /\ warnings' = IF api_data = <<>>
                         THEN warnings \cup {"No API data found for city"}
                         ELSE warnings
          /\ result' = [returned |-> TRUE, endpoints_found |-> Len(api_data)]
    /\ phase' = "done"
    /\ UNCHANGED <<city_id, table, batch, table_data, page_check, errors,
                   extractor, idx, response, city_info, requests,
                   returned, pause_due, answered>>

(***************************************************************************)
(* EnhancedMetroverseExtractor: fetch_endpoint_data, fetch_all_city_data,  *)
(* the table extraction and process_single_city.  A DataFrame is its       *)
(* column list and its records.                                            *)
(***************************************************************************)
\* METROVERSE_CONFIG['api_endpoints'] of config.py, in insertion order.
endpoints ==
    <<Entry("city_profile", "/api/city/{city_id}"),
      Entry("economic_composition", "/api/city/{city_id}/economic-composition"),
      Entry("good_at", "/api/city/{city_id}/good-at"),
      Entry("industry_position", "/api/city/{city_id}/industry-position"),
      Entry("growth_opportunities", "/api/city/{city_id}/growth-opportunities")>>

\* datetime.now().isoformat() of the run.
FetchTimestamp == Str("2025-01-01T00:00:00")

\* What fetch_endpoint_data returns for a response.
fetch_endpoint_data(r) ==
    IF r.error THEN Null
    ELSE IF r.status_code = 200 THEN (IF r.is_json THEN r.data ELSE Null)
    ELSE Null

\* pd.DataFrame(list of dicts), and df.empty.
DataFrame(records) == [columns |-> FrameColumns(<<>>, records), records |-> records]
FrameEmpty(df) == df.records = <<>> \/ df.columns = <<>>

\* d.get(k, default)
GetOr(d, k, default) == IF HasKey(d, k) THEN Get(d, k) ELSE default

\* The city info of an endpoint payload: 'city', else 'location', else
\* 'metadata'; None when the payload has none of them.
CityInfoOf(endpoint_data) ==
    IF HasKey(endpoint_data, "city") THEN Get(endpoint_data, "city")
    ELSE IF HasKey(endpoint_data, "location") THEN Get(endpoint_data, "location")
    ELSE IF HasKey(endpoint_data, "metadata") THEN Get(endpoint_data, "metadata")
    ELSE Null

MetadataRow(cid, info, endpoint_name) ==
    <<Entry("city_id", Str(cid)),
      Entry("city_name", GetOr(info, "name", Str(""))),
      Entry("country", GetOr(info, "country", Str(""))),
      Entry("country_code", GetOr(info, "country_code", Str(""))),
      Entry("population", GetOrNone(info, "population")),
      Entry("gdp_per_capita", GetOrNone(info, "gdp_per_capita")),
      Entry("latitude", GetOrNone(info, "lat")),
      Entry("longitude", GetOrNone(info, "lng")),
      Entry("data_source", Str(endpoint_name)),
      Entry("fetch_timestamp", FetchTimestamp)>>

\* Mutant: no row when no city info was found.
MinimalMetadataNone(cid) == <<>>

\* The minimal metadata created when no city info was found.
MinimalMetadata(cid) ==
    <<<<Entry("city_id", Str(cid)),
        Entry("city_name", Str("City_" \o cid)),
        Entry("fetch_timestamp", FetchTimestamp)>>>>

\* The loop of extract_city_metadata: the row of the first endpoint that
\* has a city info, <<>> when there is none.
RECURSIVE FirstMetadata(_, _)
FirstMetadata(d, cid) ==
    IF d = <<>> THEN <<>>
    ELSE IF IsDict(Head(d).v) /\ Truthy(CityInfoOf(Head(d).v.f))
         THEN <<MetadataRow(cid, CityInfoOf(Head(d).v.f).f, Head(d).k)>>
         ELSE FirstMetadata(Tail(d), cid)

extract_city_metadata(d, cid) ==
    DataFrame(IF FirstMetadata(d, cid) = <<>>
              THEN MinimalMetadata(cid)
              ELSE FirstMetadata(d, cid))

\* The rows of the dict items of a list: flattened, then updated with the
\* provenance entries.
RECURSIVE FlatItemRows(_, _)
FlatItemRows(a, extra) ==
    IF a = <<>> THEN <<>>
    ELSE (IF IsDict(Head(a))
          THEN <<DictUpdate(flatten_nested_data(Head(a), ""), extra)>>
          ELSE <<>>) \o FlatItemRows(Tail(a), extra)

\* industry_lists of one endpoint payload: (list_name, list) pairs.
IndustryLists(endpoint_data) ==
    (IF HasKey(endpoint_data, "industries")
     THEN <<Entry("industries", Get(endpoint_data, "industries"))>> ELSE <<>>)
    \o (IF HasKey(endpoint_data, "data") /\ IsList(Get(endpoint_data, "data"))
        THEN <<Entry("data", Get(endpoint_data, "data"))>> ELSE <<>>)
    \o (IF HasKey(endpoint_data, "results") /\ IsList(Get(endpoint_data, "results"))
        THEN <<Entry("results", Get(endpoint_data, "results"))>> ELSE <<>>)

RECURSIVE IndustryListRows(_, _, _)
IndustryListRows(lists, cid, endpoint_name) ==
    IF lists = <<>> THEN <<>>
    ELSE (IF IsList(Head(lists).v)
          THEN FlatItemRows(Head(lists).v.a,
                            <<Entry("city_id", Str(cid)),
                              Entry("data_source", Str(endpoint_name)),
                              Entry("list_source", Str(Head(lists).k))>>)
          ELSE <<>>) \o IndustryListRows(Tail(lists), cid, endpoint_name)

RECURSIVE IndustryRows(_, _)
IndustryRows(d, cid) ==
    IF d = <<>> THEN <<>>
    ELSE (IF IsDict(Head(d).v)
          THEN IndustryListRows(IndustryLists(Head(d).v.f), cid, Head(d).k)
          ELSE <<>>) \o IndustryRows(Tail(d), cid)

extract_industries_data(d, cid) == DataFrame(IndustryRows(d, cid))

IndicatorKeys == {"time_series", "indicators", "metrics", "years"}

RECURSIVE IndicatorFieldRows(_, _, _)
IndicatorFieldRows(fields, cid, endpoint_name) ==
    IF fields = <<>> THEN <<>>
    ELSE (IF IsList(Head(fields).v) /\ Head(fields).k \in IndicatorKeys
          THEN FlatItemRows(Head(fields).v.a,
                            <<Entry("city_id", Str(cid)),
                              Entry("data_source", Str(endpoint_name)),
                              Entry("indicator_type", Str(Head(fields).k))>>)
          ELSE <<>>) \o IndicatorFieldRows(Tail(fields), cid, endpoint_name)

RECURSIVE IndicatorRows(_, _)
IndicatorRows(d, cid) ==
    IF d = <<>> THEN <<>>
    ELSE (IF IsDict(Head(d).v)
          THEN IndicatorFieldRows(Head(d).v.f, cid, Head(d).k)
          ELSE <<>>) \o IndicatorRows(Tail(d), cid)

extract_economic_indicators(d, cid) == DataFrame(IndicatorRows(d, cid))

\* tables[f'{endpoint_name}_{key}'] for every field that is a non-empty list
\* of dicts.
RECURSIVE ListTables(_, _, _, _)
ListTables(tables, fields, cid, endpoint_name) ==
    IF fields = <<>> THEN tables
    ELSE LET value == Head(fields).v
             isTable == /\ IsList(value)
                        /\ Len(value.a) > 0
                        /\ \A i \in 1..Len(value.a) : IsDict(value.a[i])
         IN  ListTables(IF isTable
                        THEN DictSet(tables, endpoint_name \o "_" \o Head(fields).k,
                                     DataFrame([i \in 1..Len(value.a) |->
                                        DictSet(flatten_nested_data(value.a[i], ""),
                                                "city_id", Str(cid))]))
                        ELSE tables,
                        Tail(fields), cid, endpoint_name)

\* The loop over the endpoints at the end of extract_all_tabular_data.
RECURSIVE EndpointTables(_, _, _)
EndpointTables(tables, d, cid) ==
    IF d = <<>> THEN tables
    ELSE IF ~IsDict(Head(d).v) THEN EndpointTables(tables, Tail(d), cid)
    ELSE LET name == Head(d).k
             flat_data == flatten_nested_data(Head(d).v, "")
             withRaw == IF flat_data # <<>>
                        THEN DictSet(tables, name \o "_raw",
                                     DataFrame(<<DictSet(flat_data, "city_id", Str(cid))>>))
                        ELSE tables
         IN  EndpointTables(ListTables(withRaw, Head(d).v.f, cid, name), Tail(d), cid)

extract_all_tabular_data(d, cid) ==
    LET metadata == <<Entry("city_metadata", extract_city_metadata(d, cid))>>
        industries_df == extract_industries_data(d, cid)
        indicators_df == extract_economic_indicators(d, cid)
        withIndustries == IF ~FrameEmpty(industries_df)
                          THEN DictSet(metadata, "industries", industries_df)
                          ELSE metadata
        withIndicators == IF ~FrameEmpty(indicators_df)
                          THEN DictSet(withIndustries, "economic_indicators", indicators_df)
                          ELSE withIndustries
    IN  EndpointTables(withIndicators, d, cid)

\* save_processed_tables: every table that is not empty is written.
RECURSIVE save_processed_tables(_, _)
save_processed_tables(tables, cid) ==
    IF tables = <<>> THEN <<>>
    ELSE (IF FrameEmpty(Head(tables).v) THEN <<>>
          ELSE <<Entry(cid \o "_" \o Head(tables).k \o ".csv", Head(tables).v)>>)
         \o save_processed_tables(Tail(tables), cid)

\* process_single_city(city_id) begins: fetch_all_city_data.
EnhancedProcessSingleCity ==
    /\ phase = "start"
    /\ extractor' = "enhanced"
    /\ phase' = "fetch"
    /\ idx' = 1
    /\ UNCHANGED <<city_id, table, batch, table_data, page_check, errors,
                   response, working_data, city_info, requests,
                   returned, pause_due, answered, files, warnings, result>>

\* fetch_endpoint_data: self.session.get(url, timeout=...).
FetchEndpointRequest ==
    /\ extractor = "enhanced"
    /\ phase = "fetch"
    /\ response = NoResponse
    /\ \E r \in Responses(answered) :
            /\ response' = r
            /\ answered' = Answered(answered, r)
    /\ requests' = Append(requests, base_url \o Format(endpoints[idx].v, city_id))
    /\ pause_due' = TRUE
    /\ UNCHANGED <<city_id, table, batch, table_data, page_check, errors,
                   extractor, phase, idx, working_data, city_info,
                   returned, files, warnings, result>>

\* fetch_endpoint_data handles the response, sleeps in its `finally` and
\* returns; fetch_all_city_data stores the payload `if data:` and goes on.
FetchEndpointReturn ==
    /\ extractor = "enhanced"
    /\ phase = "fetch"
    /\ response # NoResponse
    /\ LET d == fetch_endpoint_data(response)
       IN  /\ working_data' = IF Truthy(d)
                              THEN DictSet(working_data, endpoints[idx].k, d)
                              ELSE working_data
           /\ returned' = IF d # Null
                          THEN Append(returned, [endpoint |-> endpoints[idx].v, data |-> d])
                          ELSE returned
    /\ warnings' = IF ~response.error /\ response.status_code # 200
                   THEN warnings \cup {"Failed to fetch"}
                   ELSE warnings
    /\ pause_due' = FALSE
    /\ response' = NoResponse
    /\ IF idx < Len(endpoints)
       THEN /\ idx' = idx + 1
            /\ phase' = phase
       ELSE /\ idx' = 1
            /\ phase' = "extract"
    /\ UNCHANGED <<city_id, table, batch, table_data, page_check, errors,
                   extractor, city_info, requests, answered, files,
                   result>>

\* The rest of process_single_city: the tables are extracted and saved.
EnhancedExtractAndSave ==
    /\ extractor = "enhanced"
    /\ phase = "extract"
    /\ files' = save_processed_tables(extract_all_tabular_data(working_data, city_id),
                                      city_id)
    /\ result' = [returned |-> TRUE,
                  tables |-> Len(extract_all_tabular_data(working_data, city_id))]
    /\ phase' = "done"
    /\ UNCHANGED <<city_id, table, batch, table_data, page_check, errors,
                   extractor, idx, response, working_data, city_info,
                   requests, returned, pause_due, answered, warnings>>

(***************************************************************************)
(* MetroverseExtractor.fetch_city_data: four sections, each stored when    *)
(* the status is 200; the pause is the last statement of the `try`.        *)
(***************************************************************************)
api_base == "https://metroverse.hks.harvard.edu/api"

sections ==
    <<"economic-composition", "good-at", "industry-position", "growth-opportunities">>

\* f"{self.api_base}/city/{city_id}/{section}"
SectionUrl(cid, section) == api_base \o "/city/" \o cid \o "/" \o section

\* session.get or response.json() raised: the `except` is taken and the
\* rest of the `try`, the pause included, is skipped.
SectionRaises(r) == r.error \/ (r.status_code = 200 /\ ~r.is_json)

\* fetch_city_data(city_id) begins.
MetroverseFetchCityData ==
    /\ phase = "start"
    /\ extractor' = "metroverse"
    /\ phase' = "sections"
    /\ idx' = 1
    /\ UNCHANGED <<city_id, table, batch, table_data, page_check, errors,
                   response, working_data, city_info, requests,
                   returned, pause_due, answered, files, warnings, result>>

\* response = self.session.get(url, timeout=30)
SectionRequest ==
    /\ extractor = "metroverse"
    /\ phase = "sections"
    /\ response = NoResponse
    /\ \E r \in Responses(answered) :
            /\ response' = r
            /\ answered' = Answered(answered, r)
    /\ requests' = Append(requests, SectionUrl(city_id, sections[idx]))
    /\ pause_due' = TRUE
    /\ UNCHANGED <<city_id, table, batch, table_data, page_check, errors,
                   extractor, phase, idx, working_data, city_info,
                   returned, files, warnings, result>>

\* The rest of the loop body; after the last section city_data is returned.
SectionReturn ==
    /\ extractor = "metroverse"
    /\ phase = "sections"
    /\ response # NoResponse
    /\ IF SectionRaises(response)
       THEN UNCHANGED <<working_data, returned, warnings, pause_due>>
       ELSE /\ IF response.status_code = 200
               THEN /\ working_data' = DictSet(working_data, sections[idx], response.data)
                    /\ returned' = IF response.data # Null
                                   THEN Append(returned, [endpoint |-> sections[idx],
                                                          data |-> response.data])
                                   ELSE returned
                    /\ UNCHANGED warnings
               ELSE /\ warnings' = warnings \cup {"Failed to fetch"}
                    /\ UNCHANGED <<working_data, returned>>
            /\ pause_due' = FALSE
    /\ response' = NoResponse
    /\ IF idx < Len(sections)
       THEN /\ idx' = idx + 1
            /\ UNCHANGED <<phase, result>>
       ELSE /\ idx' = 1
            /\ phase' = "done"
            /\ result' = [returned |-> TRUE, sections |-> Len(working_data')]
    /\ UNCHANGED <<city_id, table, batch, table_data, page_check, errors,
                   extractor, city_info, requests, answered, files>>

(***************************************************************************)
(* BasicMetroverseExtractor.extract_json_from_scripts and the conversion   *)
(* loop of its process_city.  A page is the list of its scripts; a script  *)
(* is, for each pattern, the list of what json.loads gives for the matches *)
(* of the pattern: a value, or InvalidJson when it raises.                 *)
(***************************************************************************)
InvalidJson == [t |-> "invalid"]

\* The patterns of json_patterns the pages of the model can match.
ScriptPatterns == <<"initial_state", "industries">>

\* for j, match in enumerate(matches): the entries one pattern of one script
\* adds; key = f"{name}_{j}" if j > 0 else name.
RECURSIVE StoreMatches(_, _, _, _)
StoreMatches(extracted_data, name, matches, j) ==
    IF j > Len(matches) THEN extracted_data
    ELSE StoreMatches(IF matches[j] # InvalidJson /\ Truthy(matches[j])
                      THEN DictSet(extracted_data,
                                   IF j - 1 > 0 THEN name \o "_" \o NatStr(j - 1) ELSE name,
                                   matches[j])
                      ELSE extracted_data,
                      name, matches, j + 1)

\* for pattern, name in json_patterns
RECURSIVE StorePatterns(_, _, _)
StorePatterns(extracted_data, script, names) ==
    IF names = <<>> THEN extracted_data
    ELSE StorePatterns(StoreMatches(extracted_data, Head(names), script[Head(names)], 1),
                       script, Tail(names))

\* for i, script in enumerate(script_tags)
RECURSIVE StoreScripts(_, _)
StoreScripts(extracted_data, scripts) ==
    IF scripts = <<>> THEN extracted_data
    ELSE StoreScripts(StorePatterns(extracted_data, Head(scripts), ScriptPatterns),
                      Tail(scripts))

extract_json_from_scripts(scripts) == StoreScripts(<<>>, scripts)

\* History: the values json.loads returned, in the order of the loops.
RECURSIVE LoadedOfMatches(_, _)
LoadedOfMatches(name, matches) ==
    IF matches = <<>> THEN <<>>
    ELSE (IF Head(matches) # InvalidJson /\ Head(matches) # Null
          THEN <<[endpoint |-> name, data |-> Head(matches)]>>
          ELSE <<>>) \o LoadedOfMatches(name, Tail(matches))

RECURSIVE LoadedOfScripts(_)
LoadedOfScripts(scripts) ==
    IF scripts = <<>> THEN <<>>
    ELSE LoadedOfMatches("initial_state", Head(scripts)["initial_state"])
         \o LoadedOfMatches("industries", Head(scripts)["industries"])
         \o LoadedOfScripts(Tail(scripts))

\* for key, data in json_data.items(): rows = flatten_json_to_rows(data);
\* if rows: save_to_csv(rows, csv_file, city_id)
RECURSIVE BasicFiles(_, _)
BasicFiles(json_data, cid) ==
    IF json_data = <<>> THEN <<>>
    ELSE LET rs == SaveToCsvRows(flatten_json_to_rows(Head(json_data).v, ""), cid)
         IN  (IF rs # <<>>
              THEN <<Entry(cid \o "_" \o Head(json_data).k \o ".csv",
                           WriteCsv(Fieldnames(rs), rs))>>
              ELSE <<>>) \o BasicFiles(Tail(json_data), cid)

\* The pages: at most two scripts, each with at most one match of the
\* initial_state pattern and at most MaxLen matches of the industries
\* pattern.
InitialStates == {ExamplePayload, Obj(<<>>), InvalidJson}
IndustryArrays == {ExampleIndustries, InvalidJson}

Scripts ==
    [initial_state : UNION {[1..n -> InitialStates] : n \in 0..1},
     industries : UNION {[1..n -> IndustryArrays] : n \in 0..MaxLen}]

Pages == UNION {[1..n -> Scripts] : n \in 0..2}

\* A <table> element: the cell texts of the row of its <thead> (when it has
\* one) and of its other rows, which are in a <tbody> or not.
HtmlTable(has_thead, has_tbody, head, body) ==
    [has_thead |-> has_thead, has_tbody |-> has_tbody, head |-> head, body |-> body]

\* rows = (table.find('tbody') or table).find_all('tr')
HtmlRows(t) ==
    IF t.has_tbody THEN t.body
    ELSE (IF t.has_thead THEN <<t.head>> ELSE <<>>) \o t.body

\* headers: the cells of the thead, else those of the first row.
HtmlHeaders(t) ==
    IF t.has_thead THEN t.head
    ELSE IF t.body # <<>> THEN t.body[1]
    ELSE <<>>

\* row_data[headers[j] if j < len(headers) else f'column_{j}'] = text
RowData(headers, cells) ==
    DictFromItems([j \in 1..Len(cells) |->
        Entry(IF j <= Len(headers) THEN headers[j] ELSE "column_" \o NatStr(j - 1),
              Str(cells[j]))])

\* The rows of one table: the rows after the header row that have a cell
\* and a non-empty text.
HtmlTableRows(t) ==
    LET headers == HtmlHeaders(t)
        start_idx == IF ~t.has_thead /\ headers # <<>> THEN 1 ELSE 0
        kept == SelectSeq(SubSeq(HtmlRows(t), start_idx + 1, Len(HtmlRows(t))),
                          LAMBDA cells : \E j \in 1..Len(cells) : cells[j] # "")
    IN  [i \in 1..Len(kept) |-> RowData(headers, kept[i])]

\* extract_tables_from_html: tables_data[f'table_{i}'] for every table that
\* has a row.
RECURSIVE StoreTables(_, _, _)
StoreTables(tables_data, tables, i) ==
    IF i > Len(tables) THEN tables_data
    ELSE StoreTables(IF HtmlTableRows(tables[i]) # <<>>
                     THEN DictSet(tables_data, "table_" \o NatStr(i - 1),
                                  HtmlTableRows(tables[i]))
                     ELSE tables_data,
                     tables, i + 1)

extract_tables_from_html(tables) == StoreTables(<<>>, tables, 1)

\* for key, data in table_data.items(): if data: save_to_csv(data, ...)
RECURSIVE TableFiles(_, _)
TableFiles(tables_data, cid) ==
    IF tables_data = <<>> THEN <<>>
    ELSE LET rs == SaveToCsvRows(Head(tables_data).v, cid)
         IN  (IF rs # <<>>
              THEN <<Entry(cid \o "_" \o Head(tables_data).k \o ".csv",
                           WriteCsv(Fieldnames(rs), rs))>>
              ELSE <<>>) \o TableFiles(Tail(tables_data), cid)

\* table_data once save_to_csv has run on its lists: save_to_csv sets
\* row['city_id'] in the rows it is handed.
SavedTableData(tables_data, cid) ==
    [i \in 1..Len(tables_data) |->
        Entry(tables_data[i].k, SaveToCsvRows(tables_data[i].v, cid))]

\* The <table> elements of the pages: none, a table with thead and tbody,
\* a table whose first row is its header and has a city_id column, a table
\* without row followed by a table.
ExampleHtmlTable == HtmlTable(TRUE, TRUE, <<"name", "rca">>, <<<<"IT", "0.8">>>>)
PageTables ==
    {<<>>,
     <<ExampleHtmlTable>>,
     <<HtmlTable(FALSE, FALSE, <<>>, <<<<"city_id", "name">>, <<"9", "IT">>>>)>>,
     <<HtmlTable(FALSE, FALSE, <<>>, <<>>), ExampleHtmlTable>>}

\* fetch_city_page returns the text of a 200 response, None otherwise.
fetch_city_page(r) == ~r.error /\ r.status_code = 200

\* process_city of basic_extractor.py begins: the page could not be
\* fetched, process_city logs an error and returns {}.
BasicPageNotFetched ==
    /\ phase = "start"
    /\ extractor' = "basic"
    /\ \E r \in PageResponses : ~fetch_city_page(r)
    /\ page_check' = "failed"
    /\ errors' = errors \cup {"Could not fetch HTML for city"}
    /\ result' = [returned |-> TRUE]
    /\ phase' = "unfetched"
    /\ UNCHANGED <<city_id, table, batch, table_data, idx, response, working_data,
                   city_info, requests, returned, pause_due, answered, files, warnings>>

\* process_city of basic_extractor.py on a page that was fetched:
\* extract_json_from_scripts and extract_tables_from_html.
BasicProcessCity ==
    /\ phase = "start"
    /\ extractor' = "basic"
    /\ \E r \in PageResponses : fetch_city_page(r)
    /\ page_check' = "passed"
    /\ \E page \in Pages :
            /\ working_data' = extract_json_from_scripts(page)
            /\ returned' = LoadedOfScripts(page)
    /\ \E tables \in PageTables : table_data' = extract_tables_from_html(tables)
    /\ phase' = "convert"
    /\ UNCHANGED <<city_id, table, batch, errors, idx, response, city_info, requests,
                   pause_due, answered, files, warnings, result>>

\* The rest of process_city: the conversion of every JSON section and of
\* every HTML table, and the result.
BasicConvertAndReturn ==
    /\ extractor = "basic"
    /\ phase = "convert"
    /\ files' = BasicFiles(working_data, city_id) \o TableFiles(table_data, city_id)
    /\ table_data' = SavedTableData(table_data, city_id)
    /\ result' = [returned |-> TRUE,
                  json_sections |-> Len(working_data),
                  table_sections |-> Len(table_data'),
                  json_data |-> working_data,
                  table_data |-> table_data']
    /\ phase' = "done"
    /\ UNCHANGED <<city_id, table, batch, page_check, errors, extractor, idx, response,
                   working_data, city_info, requests, returned, pause_due, answered,
                   warnings>>

InitCascade ==
    /\ city_id = MainCity
    /\ NoTable
    /\ extractor = "none"
    /\ phase = "start"
    /\ idx = 0
    /\ response = NoResponse
    /\ working_data = <<>>
    /\ city_info = Null
    /\ requests = <<>>
    /\ returned = <<>>
    /\ pause_due = FALSE
    /\ answered = 0
    /\ files = <<>>
    /\ warnings = {}
    /\ result = NoResult
    /\ page_check = "none"
    /\ errors = {}
    /\ table_data = <<>>
    /\ NoBatch

NextCascade ==
    \/ ApiMain
    \/ ApiProcessCity
    \/ TestEndpointRequest
    \/ TestEndpointReturn
    \/ SearchRequest
    \/ SearchReturn
    \/ ApiSaveAndReturn
    \/ EnhancedProcessSingleCity
    \/ FetchEndpointRequest
    \/ FetchEndpointReturn
    \/ EnhancedExtractAndSave
    \/ MetroverseFetchCityData
    \/ SectionRequest
    \/ SectionReturn
    \/ BasicPageNotFetched
    \/ BasicProcessCity
    \/ BasicConvertAndReturn

SpecCascade == InitCascade /\ [][NextCascade]_vars

\* The steps of an api run that handle a response or build the files, seen
\* through the control state alone.  Under SpecCascade the steps of an api
\* run that take the response away while an endpoint list is probed are
\* exactly the steps of TestEndpointReturn, those that take it away during
\* the search are exactly the steps of SearchReturn, and those that leave the
\* phase "save" are exactly the steps of ApiSaveAndReturn; each of the three
\* is enabled whenever its guard holds.  Weak fairness of the actions below
\* is therefore weak fairness of the three handlers.
TestEndpointReturns ==
    /\ extractor = "api"
    /\ phase \in {"standard", "alternative"}
    /\ response # NoResponse
    /\ response' = NoResponse

SearchReturns ==
    /\ extractor = "api"
    /\ phase = "search"
    /\ response # NoResponse
    /\ response' = NoResponse

ApiReturns ==
    /\ extractor = "api"
    /\ phase = "save"
    /\ phase' = "done"

\* The code of a run of main of api_extractor.py is sequential, every request
\* has a timeout and every pause ends: a step that can be taken is taken.
SpecCascadeFair ==
    /\ SpecCascade
    /\ WF_vars(ApiMain)
    /\ WF_vars(ApiProcessCity)
    /\ WF_vars(TestEndpointRequest)
    /\ WF_response(TestEndpointReturns)
    /\ WF_vars(SearchRequest)
    /\ WF_response(SearchReturns)
    /\ WF_phase(ApiReturns)

(***************************************************************************)
(* process_multiple_cities of enhanced_extractor.py and of                 *)
(* metroverse_extractor.py.  One action is one turn of the loop over the   *)
(* cities; what the fetches of the turn stored is drawn from a small set.  *)
(***************************************************************************)
MaxCities == 2   \* longest list of cities

\* An entry of the list of cities, and the lists.
CityEntry(cid) == <<Entry("id", Str(cid)), Entry("name", Str("City " \o cid))>>
CityLists == UNION {[1..n -> {CityEntry(c) : c \in Subjects}] : n \in 0..MaxCities}

\* extract_city_metadata (enhanced) calls city_info.get(...): AttributeError
\* when the first truthy city info is not a dict.
RECURSIVE MetadataRaises(_)
MetadataRaises(d) ==
    IF d = <<>> THEN FALSE
    ELSE IF IsDict(Head(d).v) /\ Truthy(CityInfoOf(Head(d).v.f))
         THEN ~IsDict(CityInfoOf(Head(d).v.f))
         ELSE MetadataRaises(Tail(d))

\* The output directory during the processing of one city: every write
\* succeeds, every write raises OSError, or the raw JSON is written and the
\* writes after it raise.
DiskStates == {"ok", "readonly", "full"}

SomeNotEmpty(tables) == \E i \in 1..Len(tables) : ~FrameEmpty(tables[i].v)

\* process_single_city(city_id) once fetch_all_city_data has stored d:
\* save_raw_data, extract_all_tabular_data, save_processed_tables.  `tables`
\* is what the extraction built, <<>> when it was not reached or raised.
process_single_city(d, cid, disk) ==
    IF disk = "readonly" \/ MetadataRaises(d)
    THEN [raised |-> TRUE, tables |-> <<>>, saved |-> <<>>]
    ELSE LET tables == extract_all_tabular_data(d, cid)
         IN  IF disk = "full" /\ SomeNotEmpty(tables)
             THEN [raised |-> TRUE, tables |-> tables, saved |-> <<>>]
             ELSE [raised |-> FALSE, tables |-> tables,
                   saved |-> save_processed_tables(tables, cid)]

\* `key in data` of Python for a JSON value: a key of a dict, an element of
\* a list, a substring of a string; TypeError for the other values.
InRaises(v) == ~(IsDict(v) \/ IsList(v) \/ v.t = "str")
In(k, v) ==
    IF IsDict(v) THEN HasKey(v.f, k)
    ELSE IF IsList(v) THEN Str(k) \in Range(v.a)
    ELSE Contains(v.s, k)

\* `for item in v: ... item.get(...)`: TypeError when v is not iterable,
\* AttributeError when an item is not a dict (the items of a string are its
\* characters, those of a dict its keys).
ItemsRaise(v) ==
    IF IsList(v) THEN \E i \in 1..Len(v.a) : ~IsDict(v.a[i])
    ELSE IF v.t = "str" THEN v.s # ""
    ELSE IF IsDict(v) THEN v.f # <<>>
    ELSE TRUE

\* The row {column: item.get(key)} for the (column, key) pairs of cols,
\* after the leading entries.
PickRow(leading, item, cols) ==
    leading \o [i \in 1..Len(cols) |-> Entry(cols[i][1], GetOrNone(item, cols[i][2]))]

ItemRows(v, leading, cols) ==
    IF IsList(v) THEN [i \in 1..Len(v.a) |-> PickRow(leading, v.a[i].f, cols)] ELSE <<>>

\* extract_city_metadata of metroverse_extractor.py.
RECURSIVE MetroverseMetadataRows(_, _)
MetroverseMetadataRows(secs, cid) ==
    IF secs = <<>> THEN <<>>
    ELSE IF IsDict(Head(secs).v) /\ HasKey(Head(secs).v.f, "city")
         THEN LET info == Get(Head(secs).v.f, "city").f
              IN  <<<<Entry("city_id", Str(cid)),
                      Entry("city_name", GetOr(info, "name", Str(""))),
                      Entry("country", GetOr(info, "country", Str(""))),
                      Entry("population", GetOrNone(info, "population")),
                      Entry("gdp_per_capita", GetOrNone(info, "gdp_per_capita")),
                      Entry("section_source", Str(Head(secs).k))>>>>
         ELSE MetroverseMetadataRows(Tail(secs), cid)

RECURSIVE MetroverseMetadataRaises(_)
MetroverseMetadataRaises(secs) ==
    IF secs = <<>> THEN FALSE
    ELSE IF IsDict(Head(secs).v) /\ HasKey(Head(secs).v.f, "city")
         THEN ~IsDict(Get(Head(secs).v.f, "city"))
         ELSE MetroverseMetadataRaises(Tail(secs))

IndustryColumns ==
    <<<<"industry_id", "id">>, <<"industry_name", "name">>, <<"employment", "employment">>,
      <<"rca", "rca">>, <<"complexity", "complexity">>,
      <<"opportunity_gain", "opportunity_gain">>, <<"distance", "distance">>>>

ClusterColumns ==
    <<<<"cluster_id", "id">>, <<"cluster_name", "name">>, <<"employment", "employment">>,
      <<"rca", "rca">>, <<"complexity", "complexity">>,
      <<"opportunity_gain", "opportunity_gain">>>>

\* extract_industries_data and extract_clusters_data of
\* metroverse_extractor.py: the rows of the list `key` of every section.
RECURSIVE SectionListRows(_, _, _, _)
SectionListRows(secs, cid, key, cols) ==
    IF secs = <<>> THEN <<>>
    ELSE (IF IsDict(Head(secs).v) /\ HasKey(Head(secs).v.f, key)
          THEN ItemRows(Get(Head(secs).v.f, key),
                        <<Entry("city_id", Str(cid)), Entry("section", Str(Head(secs).k))>>,
                        cols)
          ELSE <<>>) \o SectionListRows(Tail(secs), cid, key, cols)

SectionListRaises(secs, key) ==
    \E i \in 1..Len(secs) :
        /\ IsDict(secs[i].v)
        /\ HasKey(secs[i].v.f, key)
        /\ ItemsRaise(Get(secs[i].v.f, key))

EmploymentColumns ==
    <<<<"industry_id", "industry_id">>, <<"industry_name", "industry_name">>,
      <<"employment", "employment">>, <<"share", "share">>>>

TimelineColumns == <<<<"year", "year">>, <<"complexity", "complexity">>, <<"rank", "rank">>>>

OpportunityColumns ==
    <<<<"industry_id", "industry_id">>, <<"industry_name", "industry_name">>,
      <<"opportunity_gain", "opportunity_gain">>, <<"distance", "distance">>,
      <<"complexity", "complexity">>, <<"rca", "rca">>>>

\* `if key in data: for item in data[key]` of one section: data[key] raises
\* TypeError when data is a list or a string.
KeyedListRaises(v, key) ==
    \/ InRaises(v)
    \/ /\ In(key, v)
       /\ (~IsDict(v) \/ ItemsRaise(Get(v.f, key)))

\* extract_economic_composition
extract_economic_composition(secs, cid) ==
    IF ~HasKey(secs, "economic-composition") THEN <<>>
    ELSE LET v == Get(secs, "economic-composition")
             leading == <<Entry("city_id", Str(cid))>>
         IN  (IF In("employment_by_industry", v)
              THEN <<Entry("employment_by_industry",
                           DataFrame(ItemRows(Get(v.f, "employment_by_industry"), leading,
                                              EmploymentColumns)))>>
              ELSE <<>>)
             \o (IF In("complexity_data", v)
                 THEN <<Entry("complexity_timeline",
                              DataFrame(ItemRows(Get(v.f, "complexity_data"), leading,
                                                 TimelineColumns)))>>
                 ELSE <<>>)

\* extract_growth_opportunities
extract_growth_opportunities(secs, cid) ==
    IF HasKey(secs, "growth-opportunities")
          /\ In("opportunities", Get(secs, "growth-opportunities"))
    THEN DataFrame(ItemRows(Get(Get(secs, "growth-opportunities").f, "opportunities"),
                            <<Entry("city_id", Str(cid))>>, OpportunityColumns))
    ELSE DataFrame(<<>>)

\* One of the extractions of process_city raises.
MetroverseRaises(secs) ==
    \/ MetroverseMetadataRaises(secs)
    \/ SectionListRaises(secs, "industries")
    \/ SectionListRaises(secs, "clusters")
    \/ /\ HasKey(secs, "economic-composition")
       /\ \/ KeyedListRaises(Get(secs, "economic-composition"), "employment_by_industry")
          \/ KeyedListRaises(Get(secs, "economic-composition"), "complexity_data")
    \/ /\ HasKey(secs, "growth-opportunities")
       /\ KeyedListRaises(Get(secs, "growth-opportunities"), "opportunities")

\* The tables of process_city of metroverse_extractor.py, in the order of
\* their insertion.
MetroverseTables(secs, cid) ==
    DictSet(DictUpdate(<<Entry("city_metadata", DataFrame(MetroverseMetadataRows(secs, cid))),
                         Entry("industries",
                               DataFrame(SectionListRows(secs, cid, "industries",
                                                         IndustryColumns))),
                         Entry("clusters",
                               DataFrame(SectionListRows(secs, cid, "clusters",
                                                         ClusterColumns)))>>,
                       extract_economic_composition(secs, cid)),
            "growth_opportunities", extract_growth_opportunities(secs, cid))

\* The format process_multiple_cities is called with (its default).
format == "csv"

\* save_tables: every table that is not empty is written.
RECURSIVE save_tables(_, _)
save_tables(tables, cid) ==
    IF tables = <<>> THEN <<>>
    ELSE (IF FrameEmpty(Head(tables).v) THEN <<>>
          ELSE <<Entry(cid \o "_" \o Head(tables).k \o "." \o format, Head(tables).v)>>)
         \o save_tables(Tail(tables), cid)

\* process_city(city_id) once fetch_city_data has stored secs (the
\* extractions, then the raw JSON is written), followed by save_tables, as
\* the `try` of process_multiple_cities calls them.
metroverse_process_city(secs, cid, disk) ==
    IF MetroverseRaises(secs)
    THEN [raised |-> TRUE, tables |-> <<>>, saved |-> <<>>]
    ELSE LET tables == MetroverseTables(secs, cid)
         IN  IF disk = "readonly" \/ (disk = "full" /\ SomeNotEmpty(tables))
             THEN [raised |-> TRUE, tables |-> tables, saved |-> <<>>]
             ELSE [raised |-> FALSE, tables |-> tables, saved |-> save_tables(tables, cid)]

\* Mutant: the frame of a city goes before the frames collected earlier.
RECURSIVE CollectPrepending(_, _)
CollectPrepending(all, tables) ==
    IF tables = <<>> THEN all
    ELSE CollectPrepending(
            DictSet(all, Head(tables).k,
                    <<Head(tables).v>> \o GetOr(all, Head(tables).k, <<>>)),
            Tail(tables))

\* for table_name, df in tables.items(): all_tables[table_name].append(df)
RECURSIVE Collect(_, _)
Collect(all, tables) ==
    IF tables = <<>> THEN all
    ELSE Collect(DictSet(all, Head(tables).k,
                         Append(GetOr(all, Head(tables).k, <<>>), Head(tables).v)),
                 Tail(tables))

\* pd.concat(df_list, ignore_index=True, sort=False): the records one frame
\* after the other, the columns in the order of their first appearance.
RECURSIVE ConcatColumns(_, _)
ConcatColumns(seen, df_list) ==
    IF df_list = <<>> THEN seen
    ELSE ConcatColumns(FirstSeen(seen, Head(df_list).columns), Tail(df_list))

RECURSIVE ConcatRecords(_)
ConcatRecords(df_list) ==
    IF df_list = <<>> THEN <<>>
    ELSE Head(df_list).records \o ConcatRecords(Tail(df_list))

pd_concat(df_list) ==
    [columns |-> ConcatColumns(<<>>, df_list), records |-> ConcatRecords(df_list)]

\* create_combined_datasets: a csv and an xlsx file for every name
\* (OUTPUT_CONFIG['formats'] is ['csv', 'excel']).
RECURSIVE create_combined_datasets(_)
create_combined_datasets(all) ==
    IF all = <<>> THEN <<>>
    ELSE (IF Head(all).v = <<>> THEN <<>>
          ELSE <<Entry("combined_" \o Head(all).k \o ".csv", pd_concat(Head(all).v)),
                 Entry("combined_" \o Head(all).k \o ".xlsx", pd_concat(Head(all).v))>>)
         \o create_combined_datasets(Tail(all))

\* The end of process_multiple_cities of metroverse_extractor.py.
RECURSIVE SaveCombined(_)
SaveCombined(all) ==
    IF all = <<>> THEN <<>>
    ELSE (IF Head(all).v = <<>> THEN <<>>
          ELSE <<Entry("combined_" \o Head(all).k \o "." \o format, pd_concat(Head(all).v))>>)
         \o SaveCombined(Tail(all))

\* What fetch_all_city_data can have stored for a city: nothing, a profile,
\* a profile and a second endpoint, a payload whose city is a string.
EnhancedCityDatas ==
    {<<>>,
     <<Entry("city_profile", ExamplePayload)>>,
     <<Entry("city_profile", Obj(<<Entry("city_id", Str("9")), Entry("b", Num(1))>>)),
       Entry("industries", Obj(<<Entry("industries", ExampleIndustries)>>))>>,
     <<Entry("city_profile", Obj(<<Entry("city", Str("Bucharest"))>>))>>}

\* What fetch_city_data can have stored for a city.
MetroverseCityDatas ==
    {<<>>,
     <<Entry("economic-composition",
             Obj(<<Entry("city", Obj(<<Entry("name", Str("Bucharest"))>>)),
                   Entry("employment_by_industry",
                         Arr(<<Obj(<<Entry("industry_id", Num(1)),
                                     Entry("share", Flt("0.2"))>>)>>))>>))>>,
     <<Entry("good-at", ExamplePayload),
       Entry("growth-opportunities",
             Obj(<<Entry("opportunities",
                         Arr(<<Obj(<<Entry("industry_id", Num(2))>>)>>))>>))>>,
     <<Entry("economic-composition", Num(5))>>,
     <<Entry("good-at", Obj(<<Entry("industries", ExampleIndustries)>>))>>}

InitCities ==
    /\ NoTable
    /\ city_id = ""
    /\ extractor \in {"enhanced", "metroverse"}
    /\ phase = "cities"
    /\ idx = 0
    /\ response = NoResponse
    /\ working_data = <<>>
    /\ city_info = Null
    /\ requests = <<>>
    /\ returned = <<>>
    /\ pause_due = FALSE
    /\ answered = 0
    /\ files = <<>>
    /\ warnings = {}
    /\ result = NoResult
    /\ page_check = "none"
    /\ errors = {}
    /\ table_data = <<>>
    /\ cities \in CityLists
    /\ pos = 0
    /\ all_tables = <<>>
    /\ attempted = <<>>
    /\ outcomes = <<>>
    /\ combined = <<>>

\* Mutant: the tables are collected before the writes that can raise.
TurnCollectsFirst(cid, o) ==
    /\ city_id' = cid
    /\ attempted' = Append(attempted, cid)
    /\ outcomes' = Append(outcomes, [city_id |-> cid, raised |-> o.raised,
                                     tables |-> o.tables])
    /\ files' = files \o o.saved
    /\ all_tables' = Collect(all_tables, o.tables)
    /\ errors' = IF o.raised THEN errors \cup {"Error processing city " \o cid} ELSE errors
    /\ pos' = pos + 1
    /\ UNCHANGED <<table, extractor, phase, idx, response, working_data, city_info,
                   requests, returned, pause_due, answered, warnings, result, page_check,
                   table_data, cities, combined>>

\* One turn of the loop: the outcome o of the processing of the city.
Turn(cid, o) ==
    /\ city_id' = cid
    /\ attempted' = Append(attempted, cid)
    /\ outcomes' = Append(outcomes, [city_id |-> cid, raised |-> o.raised,
                                     tables |-> o.tables])
    /\ files' = files \o o.saved
    /\ all_tables' = IF o.raised THEN all_tables ELSE Collect(all_tables, o.tables)
    /\ errors' = IF o.raised THEN errors \cup {"Error processing city " \o cid} ELSE errors
    /\ pos' = pos + 1
    /\ UNCHANGED <<table, extractor, phase, idx, response, working_data, city_info,
                   requests, returned, pause_due, answered, warnings, result, page_check,
                   table_data, cities, combined>>

\* for city_info in cities (enhanced_extractor.py)
EnhancedNextCity ==
    /\ extractor = "enhanced"
    /\ phase = "cities"
    /\ pos < Len(cities)
    /\ \E d \in EnhancedCityDatas, disk \in DiskStates :
            Turn(Get(cities[pos + 1], "id").s,
                 process_single_city(d, Get(cities[pos + 1], "id").s, disk))

\* for city_info in city_list (metroverse_extractor.py)
MetroverseNextCity ==
    /\ extractor = "metroverse"
    /\ phase = "cities"
    /\ pos < Len(cities)
    /\ \E secs \in MetroverseCityDatas, disk \in DiskStates :
            Turn(Get(cities[pos + 1], "id").s,
                 metroverse_process_city(secs, Get(cities[pos + 1], "id").s, disk))

\* After the loop: the combined files are written.
Combine(written) ==
    /\ phase = "cities"
    /\ pos = Len(cities)
    /\ combined' = written
    /\ phase' = "done"
    /\ UNCHANGED <<city_id, table, extractor, idx, response, working_data, city_info,
                   requests, returned, pause_due, answered, files, warnings, result,
                   page_check, errors, table_data, cities, pos, all_tables, attempted,
                   outcomes>>

\* if OUTPUT_CONFIG['combine_cities']: create_combined_datasets(all_tables)
EnhancedCombine == extractor = "enhanced" /\ Combine(create_combined_datasets(all_tables))

MetroverseCombine == extractor = "metroverse" /\ Combine(SaveCombined(all_tables))

NextCities ==
    \/ EnhancedNextCity
    \/ EnhancedCombine
    \/ MetroverseNextCity
    \/ MetroverseCombine

SpecCities == InitCities /\ [][NextCities]_vars

(***************************************************************************)
(* Helpers of the properties.                                              *)
(***************************************************************************)
\* The fields of the dict d that hold a non-empty array of objects only.
ObjectArrayFields(d) ==
    {i \in 1..Len(d) :
        /\ IsList(d[i].v)
        /\ Len(d[i].v.a) >= 1
        /\ \A j \in 1..Len(d[i].v.a) : IsDict(d[i].v.a[j])}

\* The fields of the dict d that hold an array not made of objects only.
OtherArrayFields(d) ==
    {i \in 1..Len(d) :
        /\ IsList(d[i].v)
        /\ \/ d[i].v.a = <<>>
           \/ \E j \in 1..Len(d[i].v.a) : ~IsDict(d[i].v.a[j])}

\* d without its i-th field.
DropField(d, i) == SubSeq(d, 1, i - 1) \o SubSeq(d, i + 1, Len(d))

\* No other field of d flattens to a key that field i flattens to.
NoSiblingCollision(d, i) ==
    Keys(FieldItems(d[i].k, d[i].v, "", "_"))
        \cap Keys(FlattenItems(DropField(d, i), "", "_")) = {}

AllScalar(d) == \A i \in 1..Len(d) : IsScalar(d[i].v)

(***************************************************************************)
(* C1: for every field `key` of the flattened dict that holds an array of  *)
(* N >= 1 objects, the entries flatten_dict emits for the field are one    *)
(* `key_count` entry with the value N and the flattening of element 0      *)
(* under `key_first`, and nothing else (nothing from elements 1..N-1);     *)
(* unless another field flattens to the same keys, these entries are in    *)
(* the returned dict with these values.                                    *)
(***************************************************************************)
C1_ArrayOfObjectsSummary ==
    pc = "flatten_dict" =>
        \A i \in ObjectArrayFields(data.f) :
            LET k == data.f[i].k
                v == data.f[i].v
                emitted == FieldItems(k, v, "", "_")
                first == flatten_dict(v.a[1].f, k \o "_first", "_")
                counts == {j \in 1..Len(emitted) : emitted[j].k = k \o "_count"}
            IN  /\ Cardinality(counts) = 1
                /\ \A j \in counts : emitted[j].v = Num(Len(v.a))
                /\ \A j \in 1..Len(emitted) : j \in counts \/ emitted[j] \in Range(first)
                /\ \A e \in Range(first) : e \in Range(emitted)
                /\ Len(emitted) = 1 + Len(first)
                /\ NoSiblingCollision(data.f, i) =>
                        \A e \in Range(emitted) :
                            HasKey(flat, e.k) /\ Get(flat, e.k) = e.v

\* flatten_dict has run on an object whose field "a" holds two objects, the
\* second with a key the first does not have.
C1_Witness ==
    /\ pc = "flatten_dict"
    /\ data = Obj(<<Entry("a", Arr(<<Obj(<<Entry("b", Num(1))>>),
                                     Obj(<<Entry("a", Str("b"))>>)>>))>>)
    /\ flat = <<Entry("a_count", Num(2)), Entry("a_first_b", Num(1))>>

(***************************************************************************)
(* C2: for every field that holds an array not made of objects only (all   *)
(* scalars, mixed in any positions, or empty), flatten_dict emits exactly  *)
(* one entry, under the field's own key, whose value is the elements       *)
(* joined with ", ", and no `_count` or `_first` entry; unless another     *)
(* field flattens to the same key, the returned dict holds that entry.     *)
(***************************************************************************)
C2_OtherArraysJoined ==
    pc = "flatten_dict" =>
        \A i \in OtherArrayFields(data.f) :
            LET k == data.f[i].k
                v == data.f[i].v
                joined == Str(Join(", ", [j \in 1..Len(v.a) |-> PyStr(v.a[j])]))
            IN  /\ FieldItems(k, v, "", "_") = <<Entry(k, joined)>>
                /\ NoSiblingCollision(data.f, i) =>
                        /\ HasKey(flat, k) /\ Get(flat, k) = joined
                        /\ ~HasKey(flat, k \o "_count")

(***************************************************************************)
(* C3 as claimed: for every non-null value, the flattener returns a        *)
(* non-empty mapping and every value in it is a scalar.                    *)
(***************************************************************************)
C3_TotalityAsClaimed ==
    (pc \in {"flatten_dict", "flatten_nested_data"} /\ data # Null) =>
        flat # <<>> /\ AllScalar(flat)

\* An object with no field other than objects of the same kind.
RECURSIVE Hollow(_)
Hollow(v) == IsDict(v) /\ \A i \in 1..Len(v.f) : Hollow(v.f[i].v)

\* A value that holds no scalar anywhere.
RECURSIVE NoLeaf(_)
NoLeaf(v) ==
    \/ IsDict(v) /\ \A i \in 1..Len(v.f) : NoLeaf(v.f[i].v)
    \/ IsList(v) /\ \A i \in 1..Len(v.a) : NoLeaf(v.a[i])

(***************************************************************************)
(* C3 as amended: every value of the mapping a flattener returns is a      *)
(* scalar; flatten_dict (defined on objects) returns the empty mapping     *)
(* exactly for an object built of empty objects only, and                  *)
(* flatten_nested_data returns the empty mapping exactly for a value that  *)
(* holds no scalar (empty objects and empty arrays only).                  *)
(***************************************************************************)
C3_Totality ==
    /\ pc = "flatten_dict" => AllScalar(flat) /\ (flat = <<>> <=> Hollow(data))
    /\ pc = "flatten_nested_data" => AllScalar(flat) /\ (flat = <<>> <=> NoLeaf(data))

\* flatten_dict has run on an object whose only field is an empty object.
C3_Witness ==
    /\ pc = "flatten_dict"
    /\ data = Obj(<<Entry("a", Obj(<<>>))>>)
    /\ flat = <<>>

(***************************************************************************)
(* C4: every value of every row built by convert_to_csv or                 *)
(* json_to_dataframe is a scalar.                                          *)
(***************************************************************************)
C4_RowValuesScalar ==
    pc \in {"convert_to_csv", "json_to_dataframe"} =>
        \A i \in 1..Len(rows) : AllScalar(rows[i])

(***************************************************************************)
(* C5: for an array payload the row builder gives one row per element, in  *)
(* element order: the flattening plus the metadata column for an object,   *)
(* and a `value` column holding the element plus the metadata column for   *)
(* any other element.                                                      *)
(***************************************************************************)
C5_OneRowPerElement ==
    (pc \in {"convert_to_csv", "save_data_as_csv"} /\ IsList(data)) =>
        /\ Len(rows) = Len(data.a)
        /\ \A i \in 1..Len(rows) :
            LET e == data.a[i]
            IN  /\ HasKey(rows[i], "city_id")
                /\ Get(rows[i], "city_id") = Str(city_id)
                /\ IsDict(e) =>
                      \A x \in Range(flatten_dict(e.f, "", "_")) :
                          x.k = "city_id" \/ x \in Range(rows[i])
                /\ ~IsDict(e) =>
                      /\ Keys(rows[i]) = {"value", "city_id"}
                      /\ Get(rows[i], "value") = e

\* The keys the payload itself gives to row i of convert_to_csv.
PayloadKeys(d, i) ==
    IF IsList(d)
    THEN (IF IsDict(d.a[i]) THEN Keys(flatten_dict(d.a[i].f, "", "_")) ELSE {"value"})
    ELSE IF IsDict(d) THEN Keys(flatten_dict(d.f, "", "_"))
    ELSE {"value"}

ExampleColumns ==
    {"city_name", "city_population", "industries_count", "industries_first_id",
     "industries_first_name", "industries_first_rca"}

ColumnsUnified(fn, rs) ==
    /\ Range(fn) = AllKeys(rs)
    /\ Cardinality(Range(fn)) = Len(fn)
    /\ fn[1] = "city_id"
    /\ \A i \in 2..Len(fn) : \A j \in 2..Len(fn) : i < j => StrLess(fn[i], fn[j])

DictWriterPaths ==
    {"convert_to_csv", "save_data_as_csv", "save_to_csv", "save_csv",
     "convert_network_requests"}

NoDuplicates(seq) == \A i, j \in 1..Len(seq) : seq[i] = seq[j] => i = j

(***************************************************************************)
(* C11: rectangularity.  Whenever a table is written, its header is the    *)
(* column list, the columns are distinct and are exactly the keys of the   *)
(* rows, there is one line per row, every line has exactly one cell per    *)
(* column, and the cell of a column whose key the row lacks is the empty   *)
(* string.                                                                 *)
(***************************************************************************)
C11_Rectangular ==
    (pc \in DictWriterPaths /\ csvfile # <<>>) =>
        /\ csvfile[1] = fieldnames
        /\ NoDuplicates(fieldnames)
        /\ Range(fieldnames) = AllKeys(rows)
        /\ Len(csvfile) = 1 + Len(rows)
        /\ \A i \in 1..Len(rows) :
            /\ Len(csvfile[i + 1]) = Len(fieldnames)
            /\ \A j \in 1..Len(fieldnames) :
                IF HasKey(rows[i], fieldnames[j])
                THEN csvfile[i + 1][j] = CsvCell(Get(rows[i], fieldnames[j]))
                ELSE csvfile[i + 1][j] = ""

\* convert_to_csv has written two rows with different keys: each line has
\* an empty cell where its row lacks the column.
C11_Witness ==
    /\ pc = "convert_to_csv"
    /\ data = Arr(<<Obj(<<Entry("b", Num(1))>>), Obj(<<Entry("a", Str("b"))>>)>>)
    /\ city_id = "7"
    /\ csvfile = << <<"city_id", "a", "b">>, <<"7", "", "1">>, <<"7", "b", "">> >>

\* The permutations of 1..n, and a sequence reordered by one of them.
Perms(n) == {p \in [1..n -> 1..n] : \A i, j \in 1..n : p[i] = p[j] => i = j}
Permute(seq, p) == [i \in 1..Len(seq) |-> seq[p[i]]]

\* The rows of the paths that compute their header from the keys of all
\* rows give the same header in every order.
SortedHeaderDeterministic ==
    /\ (pc \in {"convert_to_csv", "save_data_as_csv", "save_to_csv"} /\ rows # <<>>) =>
            \A p \in Perms(Len(rows)) : Fieldnames(Permute(rows, p)) = fieldnames
    /\ (pc \in {"save_csv", "convert_network_requests"} /\ rows # <<>>) =>
            \A p \in Perms(Len(rows)) :
                IF pc = "save_csv"
                THEN SaveCsvLines(Permute(rows, p))[1] = fieldnames
                ELSE KeyList(Permute(rows, p)[1]) = fieldnames

C13_ZeroRowsNoTable ==
    pc \in DictWriterPaths =>
        /\ rows = <<>> => (fieldnames = <<>> /\ csvfile = <<>>)
        /\ csvfile # <<>> => (rows # <<>> /\ Len(csvfile) >= 2)

\* convert_to_csv has returned from an empty list: no row, no column, no
\* file.
C13_Witness ==
    /\ pc = "convert_to_csv"
    /\ data = Arr(<<>>)
    /\ rows = <<>>
    /\ fieldnames = <<>>
    /\ csvfile = <<>>

(***************************************************************************)
(* Helpers of the properties of the cascades.                              *)
(***************************************************************************)
\* How many times x occurs in seq.
Count(seq, x) == Cardinality({i \in 1..Len(seq) : seq[i] = x})

IsPrefix(s, t) == Len(s) <= Len(t) /\ s = SubSeq(t, 1, Len(s))

\* The URLs of the lists of process_city of api_extractor.py.
StandardUrls == [i \in 1..Len(api_endpoints) |-> base_url \o Format(api_endpoints[i], MainCity)]
AlternativeUrls ==
    [i \in 1..Len(alternative_patterns(MainCity)) |->
        base_url \o alternative_patterns(MainCity)[i]]
SearchUrls == [i \in 1..Len(search_endpoints) |-> base_url \o search_endpoints[i]]
EnhancedUrls == [i \in 1..Len(endpoints) |-> base_url \o Format(endpoints[i].v, MainCity)]
SectionUrls == [i \in 1..Len(sections) |-> SectionUrl(MainCity, sections[i])]

\* A standard endpoint returned a payload that `if data:` accepts.
StandardSucceeded ==
    \E i \in 1..Len(returned) :
        /\ returned[i].endpoint \in Range(api_endpoints)
        /\ Truthy(returned[i].data)

\* The run of the extractor e has returned.
Done(e) == extractor = e /\ phase = "done"

(***************************************************************************)
(* C14 as claimed: when a run of process_city has returned, every standard *)
(* endpoint, every alternative pattern and the search have been requested  *)
(* exactly once, whatever succeeded before; likewise every endpoint of     *)
(* fetch_all_city_data.                                                    *)
(***************************************************************************)
C14_EveryStrategyOnceAsClaimed ==
    /\ Done("api") =>
        /\ \A u \in Range(StandardUrls) : Count(requests, u) = 1
        /\ \A u \in Range(AlternativeUrls) : Count(requests, u) = 1
        /\ Count(requests, SearchUrls[1]) = 1
    /\ Done("enhanced") => \A u \in Range(EnhancedUrls) : Count(requests, u) = 1

(***************************************************************************)
(* C14: when a run of process_city has returned, every standard endpoint   *)
(* has been requested exactly once; every alternative pattern has been     *)
(* requested exactly once if no standard endpoint gave a payload and not   *)
(* at all otherwise; the search has run once: its first endpoint was       *)
(* requested exactly once and a later one at most once, only after the one *)
(* before it.  Every endpoint of fetch_all_city_data has been requested    *)
(* exactly once.                                                           *)
(***************************************************************************)
C14_StrategiesAttempted ==
    /\ Done("api") =>
        /\ \A u \in Range(StandardUrls) : Count(requests, u) = 1
        /\ \A u \in Range(AlternativeUrls) :
                Count(requests, u) = IF StandardSucceeded THEN 0 ELSE 1
        /\ Count(requests, SearchUrls[1]) = 1
        /\ \A i \in 2..Len(SearchUrls) :
                /\ Count(requests, SearchUrls[i]) <= 1
                /\ Count(requests, SearchUrls[i]) <= Count(requests, SearchUrls[i - 1])
    /\ Done("enhanced") =>
        /\ \A u \in Range(EnhancedUrls) : Count(requests, u) = 1
        /\ Len(requests) = Len(endpoints)

\* process_city has returned after the first standard endpoint gave a
\* payload: no alternative pattern was requested.
C14_Witness ==
    /\ Done("api")
    /\ returned # <<>>
    /\ returned[1].endpoint = api_endpoints[1]
    /\ Truthy(returned[1].data)
    /\ \A u \in Range(AlternativeUrls) : Count(requests, u) = 0
    /\ Len(requests) >= Len(api_endpoints) + 1

C16_StopsAfterFirstSuccessAsClaimed ==
    [][(extractor = "api" /\ \E i \in 1..Len(returned) : Truthy(returned[i].data))
            => requests' = requests]_vars

(***************************************************************************)
(* C16: process_city requests its strategies in list order: the standard   *)
(* endpoints, then the alternative patterns, then the search endpoints.    *)
(* A success does not stop the list it belongs to: every standard endpoint *)
(* is requested, and every alternative pattern once the first is.  A       *)
(* success stops the cascade only between the lists: the alternative       *)
(* patterns are requested only when no standard endpoint gave a usable     *)
(* payload, and the search stops at the first endpoint where the city is   *)
(* found.                                                                  *)
(***************************************************************************)
C16_PriorityOrderStopsBetweenLists ==
    extractor = "api" =>
        /\ \/ /\ IsPrefix(requests, StandardUrls \o AlternativeUrls \o SearchUrls)
              /\ Len(requests) > Len(StandardUrls) => ~StandardSucceeded
           \/ /\ IsPrefix(requests, StandardUrls \o SearchUrls)
              /\ Len(requests) > Len(StandardUrls)
              /\ StandardSucceeded
        /\ phase \in {"search", "save", "done"} =>
                Len(requests) >= Len(StandardUrls)
                                 + (IF StandardSucceeded THEN 0 ELSE Len(AlternativeUrls))
        /\ city_info # Null =>
                /\ phase \in {"save", "done"}
                /\ returned[Len(returned)].endpoint = "search"

\* process_city has returned; the third standard endpoint gave a payload,
\* the twelve after it were still requested, no alternative pattern was,
\* and the search stopped at its first endpoint, where the city was found.
C16_Witness ==
    /\ Done("api")
    /\ Len(returned) = 2
    /\ returned[1].endpoint = api_endpoints[3]
    /\ Truthy(returned[1].data)
    /\ city_info # Null
    /\ requests = StandardUrls \o <<SearchUrls[1]>>

\* The probe failed: a network error, a status other than 200, or a body
\* that is not JSON.
Failing(r) == r.error \/ r.status_code # 200 \/ ~r.is_json

\* The list the run is walking.
CurrentList ==
    IF extractor = "api"
    THEN (IF phase = "search" THEN search_endpoints ELSE Strategies(phase, city_id))
    ELSE IF extractor = "enhanced" THEN endpoints
    ELSE sections

(***************************************************************************)
(* C17: the step that handles a failing probe (network error, non-200      *)
(* status, non-JSON body) of test_endpoint, fetch_endpoint_data or         *)
(* fetch_city_data stores nothing for the strategy, leaves the payloads    *)
(* collected so far unchanged, and does not end the run: when the list has *)
(* a next strategy the run stands before its request, and after the last   *)
(* strategy of the list the run goes on to what follows the list.          *)
(***************************************************************************)
C17_FailingProbeDoesNotAbort ==
    [][(response # NoResponse /\ Failing(response)) =>
            /\ working_data' = working_data
            /\ returned' = returned
            /\ files' = files
            /\ response' = NoResponse
            /\ IF idx < Len(CurrentList)
               THEN /\ idx' = idx + 1
                    /\ phase' = phase
                    /\ result' = NoResult
               ELSE /\ idx' = 1
                    /\ phase' = IF extractor = "enhanced" THEN "extract"
                                ELSE IF extractor = "metroverse" THEN "done"
                                ELSE IF phase = "search" THEN "save"
                                ELSE AfterList(phase, working_data)]_vars

\* The first standard endpoint gave a payload, the probe of the second one
\* failed otherwise than by a 404, and the run stands before the request of
\* the third with the first payload kept.
C17_Witness ==
    /\ extractor = "api"
    /\ phase = "standard"
    /\ idx = 3
    /\ response = NoResponse
    /\ Len(requests) = 2
    /\ answered = 2
    /\ Len(returned) = 1
    /\ Len(working_data) = 1
    /\ Get(working_data[1].v.f, "data") = returned[1].data

\* The probes of the run that returned a payload the extractors accept
\* (`if data:`).
UsableReturned == {i \in 1..Len(returned) : Truthy(returned[i].data)}

(***************************************************************************)
(* C18: when a run of process_city of api_extractor.py or of               *)
(* basic_extractor.py has returned, the discovery result holds one entry   *)
(* for every probe that returned a usable payload, whatever the names and  *)
(* the payloads of the other probes, and one table was written for each    *)
(* entry.                                                                  *)
(***************************************************************************)
C18_EveryPayloadKept ==
    (Done("api") \/ Done("basic")) =>
        /\ Len(working_data) = Cardinality(UsableReturned)
        /\ Cardinality({i \in 1..Len(files) :
                            \E k \in Keys(working_data) :
                                files[i].k = city_id \o "_" \o k \o ".csv"})
                = Len(working_data)

\* The run of the extractor e has returned and no strategy gave a payload
\* the extractor accepts.
Exhausted(e) == Done(e) /\ working_data = <<>>

C20_PauseBetweenProbes ==
    [][requests' # requests =>
            /\ response = NoResponse
            /\ ~pause_due]_vars

(***************************************************************************)
(* Runs over several cities.                                               *)
(***************************************************************************)
InBatch == extractor \in {"enhanced", "metroverse"} /\ phase \in {"cities", "done"}

\* The outcomes of the cities whose processing did not raise, in order.
Succeeded(os) == SelectSeq(os, LAMBDA o : ~o.raised)

\* The frames the outcomes os hold under the name n, in order.
FramesNamed(os, n) ==
    LET having == SelectSeq(os, LAMBDA o : HasKey(o.tables, n))
    IN  [i \in 1..Len(having) |-> Get(having[i].tables, n)]

TableNames(os) == UNION {Keys(os[i].tables) : i \in 1..Len(os)}

\* C21: in process_multiple_cities a city whose processing raises does not
\* stop the loop: the cities gone through are the entries of the list, each
\* once and in list order, the loop ends only after the last entry, and the
\* frames collected are those of the cities that succeeded, as if the
\* failing ones were not in the list.
C21_FailureDoesNotStopLoop ==
    InBatch =>
        /\ attempted = [i \in 1..pos |-> Get(cities[i], "id").s]
        /\ Len(outcomes) = pos
        /\ (phase = "done" => pos = Len(cities))
        /\ Keys(all_tables) = TableNames(Succeeded(outcomes))
        /\ \A n \in Keys(all_tables) :
                Get(all_tables, n) = FramesNamed(Succeeded(outcomes), n)

\* A run that ended after its first city failed with its tables already
\* built, and its second city succeeded.
C21_Witness ==
    /\ InBatch
    /\ phase = "done"
    /\ Len(outcomes) = 2
    /\ outcomes[1].raised
    /\ outcomes[1].tables # <<>>
    /\ ~outcomes[2].raised
    /\ all_tables # <<>>

\* The formats the combined tables are written in, and their file names.
CombinedFormats == IF extractor = "enhanced" THEN {"csv", "xlsx"} ELSE {"csv"}
CombinedName(n, ext) == "combined_" \o n \o "." \o ext

\* The number of rows of the frames before the i-th.
RECURSIVE RowsBefore(_, _)
RowsBefore(frames, i) ==
    IF i <= 1 THEN 0 ELSE RowsBefore(frames, i - 1) + Len(frames[i - 1].records)

\* t holds the rows of the frames one frame after the other, and the union
\* of their columns.
IsConcatenation(t, frames) ==
    /\ Len(t.records) = RowsBefore(frames, Len(frames) + 1)
    /\ \A i \in 1..Len(frames) :
            SubSeq(t.records, RowsBefore(frames, i) + 1, RowsBefore(frames, i + 1))
                = frames[i].records
    /\ Range(t.columns) = UNION {Range(frames[i].columns) : i \in 1..Len(frames)}
    /\ NoDuplicates(t.columns)

\* C22: once process_multiple_cities has ended, every table name some city
\* produced has exactly one combined table (in each format written) and
\* there is no other combined file; its rows are the rows of the cities
\* under that name, in the order of the cities, and its columns are the
\* union of their columns.
C22_CombinedTables ==
    (InBatch /\ phase = "done") =>
        LET ok == Succeeded(outcomes)
        IN  /\ Len(combined) = Cardinality(TableNames(ok)) * Cardinality(CombinedFormats)
            /\ NoDuplicates(KeyList(combined))
            /\ \A n \in TableNames(ok), ext \in CombinedFormats :
                    /\ HasKey(combined, CombinedName(n, ext))
                    /\ IsConcatenation(Get(combined, CombinedName(n, ext)),
                                       FramesNamed(ok, n))

\* A run of two cities that both succeeded with different columns under
\* one name; the combined table has the rows of both.
C22_Witness ==
    /\ InBatch
    /\ phase = "done"
    /\ Len(Succeeded(outcomes)) = 2
    /\ \E n \in TableNames(outcomes) :
            LET frames == FramesNamed(outcomes, n)
            IN  /\ Len(frames) = 2
                /\ Range(frames[1].columns) # Range(frames[2].columns)
                /\ frames[1].records # <<>>
                /\ frames[2].records # <<>>
                /\ HasKey(combined, CombinedName(n, "csv"))
                /\ Len(Get(combined, CombinedName(n, "csv")).records) >= 2

(***************************************************************************)
(* C23: when the check of the city page fails (test_city_exists in main of *)
(* api_extractor.py, fetch_city_page in process_city of                    *)
(* basic_extractor.py), the run is over with an error logged: no strategy  *)
(* was or will be probed, no payload was collected and no table written.   *)
(* A run that found nothing after a passed check differs from it: it has   *)
(* probed every strategy, it has logged no error and it has returned the   *)
(* result of process_city.                                                 *)
(***************************************************************************)
C23_CheckFailureBeforeCascade ==
    /\ page_check = "failed" =>
            /\ phase = "unfetched"
            /\ requests = <<>>
            /\ returned = <<>>
            /\ working_data = <<>>
            /\ table_data = <<>>
            /\ files = <<>>
            /\ errors # {}
            /\ result \in {NoResult, [returned |-> TRUE]}
    /\ (Exhausted("api") \/ Exhausted("basic")) =>
            /\ page_check = "passed"
            /\ errors = {}
            /\ result \notin {NoResult, [returned |-> TRUE]}
    /\ Exhausted("api") => requests = StandardUrls \o AlternativeUrls \o SearchUrls

\* main of api_extractor.py has ended at a failed check of the city page.
C23_Witness ==
    /\ extractor = "api"
    /\ page_check = "failed"
    /\ phase = "unfetched"
    /\ errors = {"City does not exist or is not accessible"}

\* The value of the last of the items that has the key k.
LastValue(items, k) ==
    LET hits == {i \in 1..Len(items) : items[i].k = k}
    IN  items[CHOOSE i \in hits : \A j \in hits : j <= i].v

\* Some key is produced by two of the items flatten_dict builds for d.
KeysCollide(d) ==
    \E i, j \in 1..Len(FlattenItems(d, "", "_")) :
        i < j /\ FlattenItems(d, "", "_")[i].k = FlattenItems(d, "", "_")[j].k

(***************************************************************************)
(* C24: flatten_dict returns for every object, also when two source paths  *)
(* flatten to the same key (`a_b` next to `b` under `a`, `a_count` next to *)
(* an array of objects `a`); the returned dict has exactly one entry for   *)
(* every produced key, with the value of the item produced last.           *)
(***************************************************************************)
C24_CollidingKeysLastWins ==
    pc = "flatten_dict" =>
        LET items == FlattenItems(data.f, "", "_")
        IN  /\ Keys(flat) = Keys(items)
            /\ \A k \in Keys(items) :
                    /\ Cardinality({i \in 1..Len(flat) : flat[i].k = k}) = 1
                    /\ Get(flat, k) = LastValue(items, k)

\* flatten_dict has run on {"a": {"b": 1}, "a_b": 5}: the one entry a_b
\* holds 5, the value of the top-level key, which comes later.
C24_Witness ==
    /\ pc = "flatten_dict"
    /\ data = Obj(<<Entry("a", Obj(<<Entry("b", Num(1))>>)), Entry("a_b", Num(5))>>)
    /\ KeysCollide(data.f)
    /\ flat = <<Entry("a_b", Num(5))>>

(***************************************************************************)
(* C25: flattening is idempotent: flatten_dict of api_extractor.py applied *)
(* to the dict it returned gives that dict again, and so does flatten_dict *)
(* of simple_extractor.py; a dict whose values are all scalars is returned *)
(* with the same keys and values, in the same order.                       *)
(***************************************************************************)
C25_FlattenIdempotent ==
    pc = "flatten_dict" =>
        /\ flatten_dict(flat, "", "_") = flat
        /\ simple_flatten_dict(simple_flatten_dict(data.f, "", "_"), "", "_")
                = simple_flatten_dict(data.f, "", "_")
        /\ AllScalar(data.f) =>
                /\ flat = data.f
                /\ simple_flatten_dict(data.f, "", "_") = data.f

\* flatten_dict has run on an object with a nested object and an array,
\* which it changed; flattening the result changes nothing more.
C25_Witness ==
    /\ pc = "flatten_dict"
    /\ data = ExamplePayload
    /\ flat # data.f
    /\ AllScalar(flat)
    /\ ~AllScalar(data.f)
    /\ flatten_dict(flat, "", "_") = flat

(***************************************************************************)
(* C26: the conversion of the JSON sections and of the HTML tables at the  *)
(* end of process_city of basic_extractor.py leaves the data it is handed  *)
(* unchanged: json_data and table_data, which process_city returns in its  *)
(* result, have after the conversion exactly the keys and values they had  *)
(* before it.                                                              *)
(***************************************************************************)
C26_InputsUnchanged ==
    [][(extractor = "basic" /\ phase = "convert") =>
            /\ working_data' = working_data
            /\ table_data' = table_data
            /\ result'.json_data = working_data
            /\ result'.table_data = table_data]_vars

\* The run of process_city of api_extractor.py is over: the check of the
\* city page failed, or process_city has returned with a payload collected
\* or with none.
ApiTerminal ==
    /\ extractor = "api"
    /\ \/ phase = "unfetched"
       \/ Done("api") /\ (working_data # <<>> \/ Exhausted("api"))

(***************************************************************************)
(* C27: every run of the cascade of api_extractor.py terminates.  The      *)
(* requests of a run are, in list order, the standard endpoints, then the  *)
(* alternative patterns unless they are skipped, then the search           *)
(* endpoints; no strategy is requested twice; a request is issued only     *)
(* when no probe is in flight; and whatever the probes return, the run     *)
(* reaches a terminal state: a payload was collected, or none was          *)
(* (exhausted).                                                            *)
(***************************************************************************)
C27_CascadeTerminates ==
    /\ [](extractor = "api" =>
            /\ NoDuplicates(requests)
            /\ \/ IsPrefix(requests, StandardUrls \o AlternativeUrls \o SearchUrls)
               \/ IsPrefix(requests, StandardUrls \o SearchUrls))
    /\ [][(extractor = "api" /\ requests' # requests) => response = NoResponse]_vars
    /\ (extractor = "api" ~> ApiTerminal)

\* A run that has returned after a failing first probe, a later successful
\* one and failing search probes.
C27_Witness ==
    /\ ApiTerminal
    /\ Done("api")
    /\ Len(requests) = Len(StandardUrls) + Len(SearchUrls)
    /\ Len(returned) = 1
    /\ returned[1].endpoint # api_endpoints[1]
    /\ city_info = Null

\* A request of the run went to an alternative pattern; to a search endpoint.
AlternativesRequested == \E i \in 1..Len(requests) : requests[i] \in Range(AlternativeUrls)
SearchRequested == \E i \in 1..Len(requests) : requests[i] \in Range(SearchUrls)

(***************************************************************************)
(* C28: in process_city of api_extractor.py the alternative patterns are   *)
(* requested if and only if every standard endpoint has been probed and    *)
(* none of them gave a payload that was collected.  The search runs in     *)
(* every run, after the endpoint lists: no endpoint is requested after a   *)
(* search endpoint.  When the search finds the city, its payload is added  *)
(* under the key city_info after the entries collected before, none of     *)
(* which is removed or changed; a run whose endpoint probes all failed and *)
(* whose search found the city returns one entry, logs no "No API data"    *)
(* warning and is not exhausted.                                           *)
(***************************************************************************)
C28_AlternativesAndSearch ==
    /\ [](extractor = "api" =>
            /\ AlternativesRequested =>
                    /\ IsPrefix(StandardUrls, requests)
                    /\ ~StandardSucceeded
            /\ (phase \in {"search", "save", "done"} /\ ~StandardSucceeded) =>
                    IsPrefix(StandardUrls \o AlternativeUrls, requests)
            /\ \A i, j \in 1..Len(requests) :
                    (i < j /\ requests[i] \in Range(SearchUrls)) =>
                        requests[j] \in Range(SearchUrls)
            /\ SearchRequested => IsPrefix(StandardUrls, requests)
            /\ phase \in {"save", "done"} => SearchRequested
            /\ (Done("api") /\ city_info # Null) =>
                    /\ working_data[Len(working_data)] =
                            Entry("city_info", WorkingEntry("search", city_info))
                    /\ ~Exhausted("api")
                    /\ "No API data found for city" \notin warnings
                    /\ result.endpoints_found = Len(working_data))
    /\ [][(extractor = "api" /\ phase = "save") =>
            /\ IsPrefix(working_data, working_data')
            /\ city_info # Null =>
                    working_data' = Append(working_data,
                        Entry("city_info", WorkingEntry("search", city_info)))
            /\ city_info = Null => working_data' = working_data]_vars

\* process_city has returned: every standard endpoint and every alternative
\* pattern failed, the search found the city, and the result has the one
\* entry city_info.
C28_Witness ==
    /\ Done("api")
    /\ AlternativesRequested
    /\ Len(returned) = 1
    /\ returned[1].endpoint = "search"
    /\ Keys(working_data) = {"city_info"}
    /\ result.endpoints_found = 1
    /\ warnings = {}

\* Every record of the frame df has the column city_id with the value cid.
RowsCarry(df, cid) ==
    \A i \in 1..Len(df.records) :
        /\ HasKey(df.records[i], "city_id")
        /\ Get(df.records[i], "city_id") = Str(cid)

\* The rows convert_to_csv of api_extractor.py builds for any payload and
\* any subject carry the subject.
ApiRowsCarryCityId ==
    \A d \in Payloads, cid \in Subjects :
        LET rs == ConvertRows(d, cid)
        IN  \A i \in 1..Len(rs) :
                /\ HasKey(rs[i], "city_id")
                /\ Get(rs[i], "city_id") = Str(cid)

\* The outcomes among os that hold a table named n, in order.
Having(os, n) == SelectSeq(os, LAMBDA o : HasKey(o.tables, n))

(***************************************************************************)
(* C29: every row built for a subject has in its column city_id the        *)
(* identifier the caller supplied, also when the payload has a field that  *)
(* flattens to the key city_id: the rows of convert_to_csv of              *)
(* api_extractor.py, and every row of every table that                     *)
(* process_multiple_cities builds for a city of its list.  The rows of a   *)
(* combined table carry, block by block, the identifiers of the cities     *)
(* they came from.                                                         *)
(***************************************************************************)
C29_RowsCarrySubject ==
    /\ ApiRowsCarryCityId
    /\ InBatch =>
        /\ \A i \in 1..Len(outcomes) :
                /\ outcomes[i].city_id = Get(cities[i], "id").s
                /\ \A n \in Keys(outcomes[i].tables) :
                        RowsCarry(Get(outcomes[i].tables, n), outcomes[i].city_id)
        /\ phase = "done" =>
                \A n \in TableNames(Succeeded(outcomes)) :
                    LET having == Having(Succeeded(outcomes), n)
                        frames == FramesNamed(Succeeded(outcomes), n)
                        t == Get(combined, CombinedName(n, "csv"))
                    IN  \A i \in 1..Len(having) :
                            \A r \in (RowsBefore(frames, i) + 1)..RowsBefore(frames, i + 1) :
                                Get(t.records[r], "city_id") = Str(having[i].city_id)

\* A run over two different cities: the payload of the first has a field
\* city_id with another value; a combined table has rows of both cities,
\* each with the identifier of its city.
C29_Witness ==
    /\ InBatch
    /\ phase = "done"
    /\ extractor = "enhanced"
    /\ Len(outcomes) = 2
    /\ outcomes[1].city_id # outcomes[2].city_id
    /\ HasKey(outcomes[1].tables, "city_profile_raw")
    /\ HasKey(outcomes[2].tables, "city_profile_raw")
    /\ HasKey(Get(outcomes[1].tables, "city_profile_raw").records[1], "b")
    /\ HasKey(combined, "combined_city_profile_raw.csv")
    /\ LET t == Get(combined, "combined_city_profile_raw.csv")
       IN  /\ Len(t.records) = 2
           /\ Get(t.records[1], "city_id") = Str(outcomes[1].city_id)
           /\ Get(t.records[2], "city_id") = Str(outcomes[2].city_id)

\* The probes of the endpoint lists that were recorded as successes, in
\* order, and the entries they were given; the entry of the search is not
\* one of them.
RecordedSuccesses ==
    SelectSeq(returned, LAMBDA p : p.endpoint # "search" /\ Truthy(p.data))
ProbeEntries == SelectSeq(working_data, LAMBDA e : e.k # "city_info")

(***************************************************************************)
(* C30 as claimed: the key of every recorded success is the last path      *)
(* segment of its endpoint, `_`, and the number of successes recorded      *)
(* before it.                                                              *)
(***************************************************************************)
C30_KeyIsLastSegmentAsClaimed ==
    extractor = "api" =>
        \A i \in 1..Len(ProbeEntries) :
            i <= Len(RecordedSuccesses) =>
                ProbeEntries[i].k =
                    LastSegment(RecordedSuccesses[i].endpoint) \o "_" \o NatStr(i - 1)

(***************************************************************************)
(* C30: in discover_working_endpoints and try_alternative_endpoints the    *)
(* recorded successes all have different keys, whichever endpoints         *)
(* succeed and also when their last path segments are equal.  The key is   *)
(* the name of the endpoint, `_`, and the number of successes recorded     *)
(* before it, where the name is the last path segment of the endpoint      *)
(* string as listed, with `.json` removed for an alternative pattern.      *)
(* After any sequence of probes there are as many entries as recorded      *)
(* successes, in the order of the probes.                                  *)
(***************************************************************************)
C30_DistinctResultKeys ==
    extractor = "api" =>
        /\ NoDuplicates(KeyList(working_data))
        /\ Len(ProbeEntries) = Len(RecordedSuccesses)
        /\ \A i \in 1..Len(ProbeEntries) :
            i <= Len(RecordedSuccesses) =>
                LET endpoint == RecordedSuccesses[i].endpoint
                    name == IF endpoint \in Range(api_endpoints)
                            THEN LastSegment(endpoint)
                            ELSE Replace(LastSegment(endpoint), ".json", "")
                IN  /\ ProbeEntries[i].k = name \o "_" \o NatStr(i - 1)
                    /\ ProbeEntries[i].v =
                            WorkingEntry(endpoint, RecordedSuccesses[i].data)

\* Two standard endpoints with the last path segment `profile` succeeded:
\* their keys differ in the count alone.
C30_Witness ==
    /\ Done("api")
    /\ Len(RecordedSuccesses) = 2
    /\ RecordedSuccesses[1].endpoint = "/api/data/cities/{city_id}/profile"
    /\ RecordedSuccesses[2].endpoint = "/api/cities/{city_id}/profile"
    /\ KeyList(ProbeEntries) = <<"profile_0", "profile_1">>

====
